---- MODULE Spec2Model ----
(***************************************************************************)
(* Snapshot generation engine of @btcp/core: traversal, reference          *)
(* registry and the mode renderers (head, interactive, structure,          *)
(* outline, content, all), modelled over small document trees.             *)
(***************************************************************************)
EXTENDS Integers, Sequences, FiniteSets, TLC

VARIABLES doc, registry, result, transport

vars == <<doc, registry, result, transport>>

(* ---------------------------------------------------------------------- *)
(* Bounds                                                                  *)
(* ---------------------------------------------------------------------- *)
MaxNodes == 3
MaxDepthOpt == 1
MaxLinesOpt == 1
MaxTextLen == 2
MaxPatLen == 2
MaxInteractive == 3
MaxSectionNodes == 4
MaxRows == 3
MaxCols == 2
MaxTextChars == 3
MaxLengthOpt == 40
MaxGrepLines == 3
MaxContext == 1
MaxInlineNodes == 4
MaxCalls == 4

(* no promise: initPromise is null, or nothing is awaited *)
NoPromise == 0

(* new ChromeExtensionTransport({ autoConnect }) *)
NewTransport(autoConnect) ==
  [autoConnect |-> autoConnect, state |-> "disconnected", initPromise |-> NoPromise,
   connects |-> <<>>, sends |-> <<>>, wire |-> <<>>, history |-> <<>>]

(* ---------------------------------------------------------------------- *)
(* Documents: node 1 is document.body; every other node has an earlier     *)
(* node as parent; children are ordered by node number.                    *)
(* ---------------------------------------------------------------------- *)
NoRole == "none"
Absent == 0

(* fault names the DOM query that throws for the node: "geometry" is       *)
(* getBoundingClientRect, "selector" is generateSelector, "xpath" is        *)
(* buildSemanticXPath; "none" is a node on which every query succeeds.      *)
El(tag, tabindex, hidden) ==
  [tag |-> tag, tabindex |-> tabindex, hidden |-> hidden, fault |-> "none"]

Faults == {"none", "geometry", "selector", "xpath"}

Faulty(el, fault) == [el EXCEPT !.fault = fault]

Body == El("body", FALSE, FALSE)

Elements ==
  { El("div", FALSE, FALSE), El("div", FALSE, TRUE), El("div", TRUE, FALSE),
    El("button", FALSE, FALSE), El("a", FALSE, TRUE),
    El("nav", FALSE, FALSE), El("nav", FALSE, TRUE),
    El("h1", FALSE, FALSE), El("article", FALSE, FALSE) }

ParentFns(n) == { p \in [2..n -> 1..(n-1)] : \A i \in 2..n : p[i] < i }

(* the documents of n nodes whose nodes other than the body are drawn from E *)
DocsOver(n, E) ==
  { [i \in 1..n |-> IF i = 1 THEN [parent |-> 0, el |-> Body]
                             ELSE [parent |-> p[i], el |-> e[i]]] :
      p \in ParentFns(n), e \in [2..n -> E] }

DocsOfSize(n) == DocsOver(n, Elements)

Docs == UNION { DocsOfSize(n) : n \in 1..MaxNodes }

(* documents whose nodes may fail a DOM query *)
FaultElements ==
  { Faulty(e, f) : e \in { El("button", FALSE, FALSE), El("nav", FALSE, FALSE),
                           El("div", TRUE, FALSE) },
                   f \in Faults }

FaultDocsOfSize(n) ==
  { [i \in 1..n |-> IF i = 1 THEN [parent |-> 0, el |-> Body]
                             ELSE [parent |-> p[i], el |-> e[i]]] :
      p \in ParentFns(n), e \in [2..n -> FaultElements] }

FaultDocs == UNION { FaultDocsOfSize(n) : n \in 2..MaxNodes }

Pages ==
  { [viewportWidth |-> 0, viewportHeight |-> 0, readyState |-> "loading"],
    [viewportWidth |-> 1024, viewportHeight |-> 768, readyState |-> "complete"] }

Nodes == DOMAIN doc

RECURSIVE SortedSeq(_)
SortedSeq(S) ==
  IF S = {} THEN <<>>
  ELSE LET m == CHOOSE x \in S : \A y \in S : x <= y
       IN <<m>> \o SortedSeq(S \ {m})

(* element.children, in document order *)
children(n) == SortedSeq({ i \in Nodes : doc[i].parent = n })

RECURSIVE Ancestors(_)
Ancestors(n) ==
  IF doc[n].parent = 0 THEN {} ELSE {doc[n].parent} \cup Ancestors(doc[n].parent)

tagName(n) == doc[n].el.tag

(* ---------------------------------------------------------------------- *)
(* Node inspector                                                          *)
(* ---------------------------------------------------------------------- *)
getRole(n) ==
  CASE tagName(n) = "button"  -> "button"
    [] tagName(n) = "a"       -> "link"
    [] tagName(n) = "nav"     -> "navigation"
    [] tagName(n) = "h1"      -> "heading level=1"
    [] tagName(n) = "article" -> "article"
    [] OTHER                  -> NoRole

isInteractive(n) == tagName(n) \in {"button", "a"} \/ doc[n].el.tabindex

isVisible(n, checkAncestors) ==
  /\ ~doc[n].el.hidden
  /\ checkAncestors => \A a \in Ancestors(n) : ~doc[a].el.hidden

LANDMARK_ROLES ==
  {"banner", "navigation", "main", "complementary", "contentinfo", "search", "region", "form"}

startsWithHeading(role) == role = "heading level=1"

toUpperCase(s) ==
  CASE s = "button"          -> "BUTTON"
    [] s = "link"            -> "LINK"
    [] s = "navigation"      -> "NAVIGATION"
    [] s = "heading level=1" -> "HEADING LEVEL=1"
    [] s = "article"         -> "ARTICLE"
    [] s = "nav"             -> "NAV"
    [] s = "h1"              -> "H1"
    [] OTHER                 -> s

(* role.split(' ')[0] *)
firstWord(s) == IF s = "heading level=1" THEN "heading" ELSE s

(* ---------------------------------------------------------------------- *)
(* Traversal engine                                                        *)
(* ---------------------------------------------------------------------- *)
TraverseOptions(maxDepth, includeHidden, checkAncestors) ==
  [maxDepth |-> maxDepth, includeHidden |-> includeHidden, checkAncestors |-> checkAncestors]

(* mutant: the visibility test of the generator is forgotten *)
prunedByDepthOnly(element, depth, o) == depth > o.maxDepth

(* the two early returns of the generator *)
pruned(element, depth, o) ==
  \/ depth > o.maxDepth
  \/ ~o.includeHidden /\ ~isVisible(element, o.checkAncestors)

RECURSIVE traverse(_, _, _)
RECURSIVE traverseChildren(_, _, _)

(* the inner generator of traverseElements *)
traverse(element, depth, o) ==
  IF pruned(element, depth, o) THEN <<>>
  ELSE <<[element |-> element, depth |-> depth]>>
         \o traverseChildren(children(element), depth + 1, o)

traverseChildren(cs, depth, o) ==
  IF cs = <<>> THEN <<>>
  ELSE traverse(Head(cs), depth, o) \o traverseChildren(Tail(cs), depth, o)

traverseElements(root, o) == traverse(root, 0, o)

collectElements(root, o) ==
  LET items == traverseElements(root, o)
  IN [i \in 1..Len(items) |-> items[i].element]

(* ---------------------------------------------------------------------- *)
(* Reference registry (RefMap): clear / set / get.  The log field records  *)
(* the calls made on the registry during the current pass.                 *)
(* ---------------------------------------------------------------------- *)
EmptyMap == [x \in {} |-> 0]

RefToken(k) == <<"@ref:", k>>
NoRef == <<>>

RegClear(reg) == [map |-> EmptyMap, log |-> Append(reg.log, "clear")]

RegSet(reg, ref, element) ==
  [map |-> [x \in (DOMAIN reg.map) \cup {ref} |-> IF x = ref THEN element ELSE reg.map[x]],
   log |-> Append(reg.log, "set")]

RegGet(reg, ref) == IF ref \in DOMAIN reg.map THEN reg.map[ref] ELSE Absent

(* ---------------------------------------------------------------------- *)
(* Options, lines and results                                              *)
(* ---------------------------------------------------------------------- *)
(* a one-symbol text for a word, the empty text for the empty word *)
Word(s) == IF s = "" THEN <<>> ELSE <<s>>

GrepOptions(pattern, ignoreCase, invert, fixedStrings) ==
  [pattern |-> pattern, ignoreCase |-> ignoreCase, invert |-> invert,
   fixedStrings |-> fixedStrings]

NoGrep == GrepOptions(<<>>, FALSE, FALSE, FALSE)

InteractiveGreps == { NoGrep, GrepOptions(Word("BUTTON"), FALSE, FALSE, FALSE) }
OutlineGreps == { NoGrep, GrepOptions(Word("NAVIGATION"), FALSE, TRUE, FALSE) }

Options(root, maxDepth, includeHidden, maxLines, grep) ==
  [root |-> root, maxDepth |-> maxDepth, includeHidden |-> includeHidden,
   checkAncestors |-> FALSE, maxLines |-> maxLines, grep |-> grep,
   format |-> "unset", includeLinks |-> "unset", includeImages |-> "unset",
   maxLength |-> 0,
   selector |-> ""]

(* ContentOptions / ExtractOptions: an option the caller leaves out is "unset" *)
Formatted(opts, format, includeLinks, includeImages) ==
  [opts EXCEPT !.format = format, !.includeLinks = includeLinks,
               !.includeImages = includeImages]

(* the error code validateContentOptions throws, "" when it returns *)
validateContentOptions(options) ==
  IF options.includeLinks # "unset" /\ options.format # "markdown"
  THEN "INVALID_OPTIONS"
  ELSE IF options.includeImages # "unset" /\ options.format # "markdown"
  THEN "INVALID_OPTIONS"
  ELSE ""

(* a rendered line: its leading role word, the @ref token it carries (or   *)
(* none), its indentation, and the element its name and xpath describe     *)
NoSummary == <<>>

Line(text, ref, indent, element) ==
  [text |-> Word(text), ref |-> ref, indent |-> indent, element |-> element,
   summary |-> NoSummary]

NoHeader == [kind |-> "", elements |-> 0, refs |-> 0, truncated |-> FALSE,
             grep |-> <<>>, matches |-> 0]

NoMetadata == [totalInteractiveElements |-> 0, capturedElements |-> 0,
               quality |-> "", depthLimited |-> FALSE, warnings |-> {}]

NoPage == [viewportWidth |-> 0, viewportHeight |-> 0, readyState |-> ""]

NoResult ==
  [mode |-> "none", opts |-> Options(Absent, 0, FALSE, 0, NoGrep), error |-> "",
   page |-> NoPage,
   elements |-> <<>>, rendered |-> <<>>, lines |-> <<>>, refs |-> EmptyMap,
   header |-> NoHeader, metadata |-> NoMetadata]

(* a SnapshotConfigError thrown to the caller *)
Thrown(mode, code) == [NoResult EXCEPT !.mode = mode, !.error = code]

(* an exception of per-node processing propagating out of a renderer *)
Raised(mode, opts) == [NoResult EXCEPT !.mode = mode, !.opts = opts, !.error = "EXCEPTION"]

validateRoot(root, body) == IF root # Absent THEN root ELSE body

(* ---------------------------------------------------------------------- *)
(* Pattern filter over rendered lines                                      *)
(* ---------------------------------------------------------------------- *)
(* A text is a sequence of symbols: single characters, or whole words for  *)
(* the lines the renderers build.  The regex dialect is literals, escapes  *)
(* and the * quantifier; no other metacharacter occurs in the alphabets.   *)
MetaChars == {".", "*", "+", "?", "^", "$", "{", "}", "(", ")", "|", "[", "]", "\\"}

toLowerCase(c) ==
  CASE c = "A"               -> "a"
    [] c = "BUTTON"          -> "button"
    [] c = "LINK"            -> "link"
    [] c = "NAVIGATION"      -> "navigation"
    [] c = "HEADING LEVEL=1" -> "heading level=1"
    [] c = "ARTICLE"         -> "article"
    [] OTHER                 -> c

toLowerCaseText(text) == [i \in 1..Len(text) |-> toLowerCase(text[i])]

(* text.includes(pattern) *)
includes(text, pattern) ==
  \E s \in 1..(Len(text) + 1) :
    /\ s + Len(pattern) - 1 <= Len(text)
    /\ SubSeq(text, s, s + Len(pattern) - 1) = pattern

(* mutant: the pattern is used as a regex as it stands *)
escapeNothing(pattern) == pattern

RECURSIVE escapeRegExp(_)
(* pattern.replace(/[.*+?^${}()|[\]\\]/g, '\\$&') *)
escapeRegExp(pattern) ==
  IF pattern = <<>> THEN <<>>
  ELSE (IF Head(pattern) \in MetaChars THEN <<"\\", Head(pattern)>>
        ELSE <<Head(pattern)>>) \o escapeRegExp(Tail(pattern))

RECURSIVE compile(_, _)
(* new RegExp(regexPattern, flags): the compiled items, or ok = FALSE when
   the constructor throws (nothing to repeat, \ at end of pattern) *)
compile(p, items) ==
  IF p = <<>> THEN [ok |-> TRUE, items |-> items]
  ELSE IF Head(p) = "\\"
  THEN IF Len(p) = 1 THEN [ok |-> FALSE, items |-> <<>>]
       ELSE compile(SubSeq(p, 3, Len(p)), Append(items, [ch |-> p[2], star |-> FALSE]))
  ELSE IF Head(p) = "*"
  THEN IF items = <<>> \/ items[Len(items)].star
       THEN [ok |-> FALSE, items |-> <<>>]
       ELSE compile(Tail(p), [items EXCEPT ![Len(items)].star = TRUE])
  ELSE compile(Tail(p), Append(items, [ch |-> Head(p), star |-> FALSE]))

sameChar(c, d, ignoreCase) ==
  IF ignoreCase THEN toLowerCase(c) = toLowerCase(d) ELSE c = d

RECURSIVE matchHere(_, _, _, _)
matchHere(items, text, i, ignoreCase) ==
  IF items = <<>> THEN TRUE
  ELSE IF Head(items).star
  THEN \/ matchHere(Tail(items), text, i, ignoreCase)
       \/ /\ i <= Len(text)
          /\ sameChar(text[i], Head(items).ch, ignoreCase)
          /\ matchHere(items, text, i + 1, ignoreCase)
  ELSE /\ i <= Len(text)
       /\ sameChar(text[i], Head(items).ch, ignoreCase)
       /\ matchHere(Tail(items), text, i + 1, ignoreCase)

(* regex.test(text): a match starting anywhere *)
regexTest(regex, text, ignoreCase) ==
  \E s \in 1..(Len(text) + 1) : matchHere(regex.items, text, s, ignoreCase)

(* mutant: the fallback compares case-sensitively whatever ignoreCase says *)
stringMatchCaseSensitive(text, pattern, ignoreCase) == includes(text, pattern)

(* the catch branch: substring matching on the raw pattern *)
stringMatch(text, pattern, ignoreCase) ==
  IF ignoreCase THEN includes(toLowerCaseText(text), toLowerCaseText(pattern))
  ELSE includes(text, pattern)

(* mutant: invert is ignored *)
invertIgnored(matches, invert) == matches

(* return invert ? !matches : matches *)
applyInvert(matches, invert) == IF invert THEN ~matches ELSE matches

(* the per-text test the three entry points share: regex when the pattern
   compiles, substring matching when it does not, invert applied last *)
matchesGrep(text, grepOpts) ==
  LET regexPattern == IF grepOpts.fixedStrings THEN escapeRegExp(grepOpts.pattern)
                      ELSE grepOpts.pattern
      regex == compile(regexPattern, <<>>)
      matches == IF regex.ok THEN regexTest(regex, text, grepOpts.ignoreCase)
                 ELSE stringMatch(text, grepOpts.pattern, grepOpts.ignoreCase)
  IN applyInvert(matches, grepOpts.invert)

grepLines(lines, grepOpts) ==
  LET regexPattern == IF grepOpts.fixedStrings THEN escapeRegExp(grepOpts.pattern)
                      ELSE grepOpts.pattern
      regex == compile(regexPattern, <<>>)
      keep(line) ==
        LET matches == IF regex.ok THEN regexTest(regex, line.text, grepOpts.ignoreCase)
                       ELSE stringMatch(line.text, grepOpts.pattern, grepOpts.ignoreCase)
        IN applyInvert(matches, grepOpts.invert)
      filteredLines == SelectSeq(lines, keep)
  IN [items |-> filteredLines, pattern |-> grepOpts.pattern,
      matchCount |-> Len(filteredLines), totalCount |-> Len(lines)]

grepItems(items, grepOpts, extractor) ==
  LET regexPattern == IF grepOpts.fixedStrings THEN escapeRegExp(grepOpts.pattern)
                      ELSE grepOpts.pattern
      regex == compile(regexPattern, <<>>)
      keep(item) ==
        LET text == item[extractor]
            matches == IF regex.ok THEN regexTest(regex, text, grepOpts.ignoreCase)
                       ELSE stringMatch(text, grepOpts.pattern, grepOpts.ignoreCase)
        IN applyInvert(matches, grepOpts.invert)
      filteredItems == SelectSeq(items, keep)
  IN [items |-> filteredItems, pattern |-> grepOpts.pattern,
      matchCount |-> Len(filteredItems), totalCount |-> Len(items)]

(* ---------------------------------------------------------------------- *)
(* Steps shared by the ref-issuing renderers                               *)
(* ---------------------------------------------------------------------- *)
(* mutant: the pass does not clear the registry *)
clearOmitted(refMap) == refMap

(* refMap.clear() at the start of the pass *)
clearRegistry(refMap) == RegClear(refMap)

(* mutant: numbering continues from what the registry already holds *)
refCounterFromRegistry(refMap) == Cardinality(DOMAIN refMap.map)

(* let refCounter = 0 *)
initialRefCounter(refMap) == 0

(* mutant: pre-increment, `@ref:${++refCounter}` *)
issueRefPreIncrement(refCounter) == RefToken(refCounter + 1)

(* `@ref:${refCounter++}` *)
issueRef(refCounter) == RefToken(refCounter)

(* mutant: the ref is put on the line but never stored in the registry *)
setRefOmitted(reg, ref, element) == reg

(* refMap.set(ref, element) *)
setRef(reg, ref, element) == RegSet(reg, ref, element)

(* mutant: the refs table is reassigned instead of extended *)
putRefInfoReassigned(refs, ref, info) == [x \in {ref} |-> info]

(* refs[ref] = {...} *)
putRefInfo(refs, ref, info) ==
  [x \in (DOMAIN refs) \cup {ref} |-> IF x = ref THEN info ELSE refs[x]]

(* ---------------------------------------------------------------------- *)
(* Interactive mode                                                        *)
(* ---------------------------------------------------------------------- *)
(* mutant: the role check is forgotten *)
skipNonInteractiveOnly(isInteractiveElement, role) == ~isInteractiveElement

(* the two `continue` statements of the loop *)
skipElement(isInteractiveElement, role) == ~isInteractiveElement \/ role = NoRole

(* mutant: a captured element is not counted *)
capturedNotCounted(capturedInteractive) == capturedInteractive

(* capturedInteractive++ *)
countCaptured(capturedInteractive) == capturedInteractive + 1

(* mutant: the catch block records a bounding box all the same *)
degradedInfoWithBox(role) == [role |-> firstWord(role), bbox |-> TRUE]

(* the refs entry written by the catch block: selector, role, name *)
degradedInfo(role) == [role |-> firstWord(role), bbox |-> FALSE]

(* the queries inside the try block: element.getBoundingClientRect() and
   generateSelector(element) *)
tryThrows(element) == doc[element].el.fault \in {"geometry", "selector"}

generateSelectorThrows(element) == doc[element].el.fault = "selector"

(* buildSemanticXPath(element), called outside the try block *)
xpathThrows(element) == doc[element].el.fault = "xpath"

(* mutant: high only for a complete capture, medium for every other one *)
qualityHighWhenComplete(viewportArea, capturedInteractive, totalInteractive) ==
  IF viewportArea = 0 \/ capturedInteractive = 0 THEN "low"
  ELSE IF capturedInteractive >= totalInteractive THEN "high" ELSE "medium"

(* viewportArea === 0 || capturedInteractive === 0 ? 'low'
     : capturedInteractive < totalInteractive * 0.5 ? 'medium' : 'high' *)
quality(viewportArea, capturedInteractive, totalInteractive) ==
  IF viewportArea = 0 \/ capturedInteractive = 0 THEN "low"
  ELSE IF 2 * capturedInteractive < totalInteractive THEN "medium" ELSE "high"

RECURSIVE interactiveLoop(_, _)

(* the for-loop of snapshotInteractive over the collected elements *)
interactiveLoop(elements, acc) ==
  IF elements = <<>> THEN acc
  ELSE
    LET element == Head(elements)
        role == getRole(element)
        isInteractiveElement == isInteractive(element)
        total == IF isInteractiveElement THEN acc.totalInteractive + 1
                 ELSE acc.totalInteractive
    IN IF skipElement(isInteractiveElement, role)
       THEN interactiveLoop(Tail(elements), [acc EXCEPT !.totalInteractive = total])
       ELSE
         LET ref == issueRef(acc.refCounter)
             (* try { getBoundingClientRect, generateSelector }
                catch { generateSimpleSelector } *)
             info == IF tryThrows(element)
                     THEN degradedInfo(role)
                     ELSE [role |-> firstWord(role), bbox |-> TRUE]
             issued == [acc EXCEPT
                          !.totalInteractive = total,
                          !.refCounter = @ + 1,
                          !.capturedInteractive = countCaptured(@),
                          !.reg = setRef(@, ref, element),
                          !.refs = putRefInfo(@, ref, info)]
         IN IF xpathThrows(element)
            THEN (* buildSemanticXPath throws outside any try: the loop is left *)
                 [issued EXCEPT !.thrown = TRUE]
            ELSE interactiveLoop(Tail(elements),
                   [issued EXCEPT
                      !.lines = Append(@, Line(toUpperCase(role), ref, 0, element))])

snapshotInteractive(root, page, refMap, opts) ==
  LET cleared == clearRegistry(refMap)
      elements == collectElements(root,
                    TraverseOptions(opts.maxDepth, opts.includeHidden, FALSE))
      acc == interactiveLoop(elements,
               [lines |-> <<>>, refs |-> EmptyMap, refCounter |-> initialRefCounter(refMap), reg |-> cleared,
                totalInteractive |-> 0, capturedInteractive |-> 0, thrown |-> FALSE])
      grepped == opts.grep.pattern # <<>>
      grepResult == grepLines(acc.lines, opts.grep)
      filteredLines == IF grepped THEN grepResult.items ELSE acc.lines
      viewportArea == page.viewportWidth * page.viewportHeight
      warnings ==
        (IF viewportArea = 0 THEN {"Viewport not initialized"} ELSE {})
        \cup (IF acc.capturedInteractive = 0 /\ acc.totalInteractive = 0
                 /\ Len(elements) < 10
              THEN {"Page appears to be empty"} ELSE {})
  IN [reg |-> acc.reg,
      data |->
        IF acc.thrown THEN Raised("interactive", opts) ELSE
        [mode |-> "interactive", opts |-> opts, error |-> "", page |-> page,
         elements |-> elements, rendered |-> acc.lines, lines |-> filteredLines,
         refs |-> acc.refs,
         header |-> [kind |-> "SNAPSHOT", elements |-> Len(elements),
                     refs |-> acc.capturedInteractive, truncated |-> FALSE,
                     grep |-> IF grepped THEN grepResult.pattern ELSE <<>>,
                     matches |-> IF grepped THEN grepResult.matchCount ELSE 0],
         metadata |->
           [totalInteractiveElements |-> acc.totalInteractive,
            capturedElements |-> acc.capturedInteractive,
            quality |-> quality(viewportArea, acc.capturedInteractive,
                                acc.totalInteractive),
            depthLimited |-> FALSE, warnings |-> warnings]]]

(* ---------------------------------------------------------------------- *)
(* All mode                                                                *)
(* ---------------------------------------------------------------------- *)
(* mutant: an element without a role adds no line *)
pushLineUnlessEmpty(lines, line) == IF line.text = <<>> THEN lines ELSE Append(lines, line)

(* lines.push(line), the line being '' when the element has no role *)
pushLine(lines, line) == Append(lines, line)

RECURSIVE allLoop(_, _)

(* the for-loop of snapshotAll over the collected elements *)
allLoop(elements, acc) ==
  IF elements = <<>> THEN acc
  ELSE
    LET element == Head(elements)
        role == getRole(element)
        isInteractiveElement == isInteractive(element)
        count == IF isInteractiveElement THEN acc.interactiveCount + 1
                 ELSE acc.interactiveCount
    IN IF role = NoRole /\ ~isInteractiveElement
       THEN allLoop(Tail(elements), [acc EXCEPT !.interactiveCount = count])
       ELSE IF role # NoRole
       THEN
         LET ref == issueRef(acc.refCounter)
             issued == [acc EXCEPT
                          !.interactiveCount = count,
                          !.refCounter = @ + 1,
                          !.reg = setRef(@, ref, element)]
             (* try { getBoundingClientRect, generateSelector }
                catch { generateSelector } *)
             info == IF tryThrows(element)
                     THEN degradedInfo(role)
                     ELSE [role |-> firstWord(role), bbox |-> TRUE]
             stored == [issued EXCEPT !.refs = putRefInfo(@, ref, info)]
         IN IF tryThrows(element) /\ generateSelectorThrows(element)
            THEN (* the catch block calls generateSelector again *)
                 [issued EXCEPT !.thrown = TRUE]
            ELSE IF xpathThrows(element)
            THEN [stored EXCEPT !.thrown = TRUE]
            ELSE allLoop(Tail(elements),
                   [stored EXCEPT
                      !.lines = pushLine(@, Line(toUpperCase(role), ref, 0, element))])
       ELSE
         (* interactive but no role: the empty line is pushed *)
         allLoop(Tail(elements),
           [acc EXCEPT !.interactiveCount = count,
                       !.lines = pushLine(@, Line("", NoRef, 0, element))])

snapshotAll(root, refMap, opts) ==
  LET cleared == clearRegistry(refMap)
      elements == collectElements(root,
                    TraverseOptions(opts.maxDepth, opts.includeHidden, FALSE))
      acc == allLoop(elements,
               [lines |-> <<>>, refs |-> EmptyMap, refCounter |-> initialRefCounter(refMap), reg |-> cleared,
                interactiveCount |-> 0, thrown |-> FALSE])
  IN [reg |-> acc.reg,
      data |->
        IF acc.thrown THEN Raised("all", opts) ELSE
        [mode |-> "all", opts |-> opts, error |-> "", page |-> NoPage,
         elements |-> elements, rendered |-> acc.lines, lines |-> acc.lines,
         refs |-> acc.refs,
         header |-> [kind |-> "ALL", elements |-> Len(acc.lines),
                     refs |-> acc.refCounter, truncated |-> FALSE,
                     grep |-> <<>>, matches |-> 0],
         metadata |->
           [totalInteractiveElements |-> acc.interactiveCount,
            capturedElements |-> Len(acc.lines),
            quality |-> "high", depthLimited |-> FALSE, warnings |-> {}]]]

(* ---------------------------------------------------------------------- *)
(* Structure mode                                                          *)
(* ---------------------------------------------------------------------- *)
landmarkRoles ==
  {"banner", "navigation", "main", "complementary", "contentinfo", "search", "region", "form"}

isHeadingTag(tag) == tag \in {"h1", "h2", "h3", "h4", "h5", "h6"}

(* mutant: the children of an invisible element are not pushed *)
pushChildrenIfVisible(current, stack) ==
  IF isVisible(current, FALSE) THEN children(current) \o stack ELSE stack

(* for (i = children.length - 1; i >= 0; i--) stack.push(children[i]) *)
pushChildren(current, stack) == children(current) \o stack

RECURSIVE countLoop(_, _)

(* the stack loop of countInteractiveDescendants *)
countLoop(stack, counts) ==
  IF stack = <<>> THEN counts
  ELSE
    LET current == Head(stack)
        role == getRole(current)
        tag == tagName(current)
        next ==
          IF isVisible(current, FALSE) /\ isInteractive(current)
          THEN IF role = "button" \/ tag = "button"
               THEN [counts EXCEPT !.buttons = @ + 1]
               ELSE IF role = "link" \/ tag = "a"
               THEN [counts EXCEPT !.links = @ + 1]
               ELSE IF role \in {"textbox", "searchbox", "combobox"}
                       \/ tag \in {"input", "textarea", "select"}
               THEN [counts EXCEPT !.inputs = @ + 1]
               ELSE [counts EXCEPT !.other = @ + 1]
          ELSE counts
    IN countLoop(pushChildren(current, Tail(stack)), next)

countInteractiveDescendants(element) ==
  countLoop(<<element>>, [buttons |-> 0, links |-> 0, inputs |-> 0, other |-> 0])

buildInteractionSummary(counts) ==
  IF counts.buttons + counts.links + counts.inputs + counts.other = 0
  THEN NoSummary ELSE counts

QueueItems(cs, depth, indent) ==
  [i \in 1..Len(cs) |-> [element |-> cs[i], depth |-> depth, indent |-> indent]]

(* mutant: the emitted line is not counted *)
countLineForgotten(currentLineCount) == currentLineCount

(* currentLineCount++ *)
countLine(currentLineCount) == currentLineCount + 1

(* the budget half of the while condition *)
hasBudget(currentLineCount, maxLines) == currentLineCount < maxLines

(* mutant: visibility is tested for semantic elements too *)
visibilityAlwaysChecked(isSemanticElement) == FALSE

(* const skipVisibilityCheck = isSemanticElement *)
skipVisibilityCheck(isSemanticElement) == isSemanticElement

(* mutant: the subtree below an invisible element is dropped *)
queueBelowHiddenDropped(cs, depth, indent) == <<>>

(* the children of an invisible, non-semantic element are still queued *)
queueBelowHidden(cs, depth, indent) == QueueItems(cs, depth, indent)

RECURSIVE structureLoop(_, _)

(* the while-loop of snapshotStructure *)
structureLoop(st, opts) ==
  IF ~(Len(st.queue) > 0 /\ hasBudget(st.currentLineCount, opts.maxLines)) THEN st
  ELSE
    LET item == Head(st.queue)
        rest == Tail(st.queue)
        element == item.element
        role == getRole(element)
        tag == tagName(element)
        isLandmark == role # NoRole /\ role \in landmarkRoles
        isHeading == role = "heading" \/ isHeadingTag(tag)
        isFormElement == role = "form" \/ tag = "form"
        isSemanticElement == isLandmark \/ isHeading \/ isFormElement
        sameIndent == QueueItems(children(element), item.depth + 1, item.indent)
    IN IF item.depth > opts.maxDepth
       THEN structureLoop([st EXCEPT !.queue = rest], opts)
       ELSE IF element \in st.processedElements
       THEN structureLoop([st EXCEPT !.queue = rest], opts)
       ELSE IF ~opts.includeHidden /\ ~skipVisibilityCheck(isSemanticElement)
                 /\ ~isVisible(element, FALSE)
       THEN structureLoop(
              [st EXCEPT !.queue = rest \o queueBelowHidden(children(element),
                                             item.depth + 1, item.indent)], opts)
       ELSE IF ~isLandmark /\ ~isHeading /\ ~isFormElement
       THEN structureLoop([st EXCEPT !.queue = rest \o sameIndent,
                                     !.processedElements = @ \cup {element}], opts)
       ELSE IF st.currentLineCount >= opts.maxLines
       THEN [st EXCEPT !.queue = rest, !.truncated = TRUE,
                       !.processedElements = @ \cup {element}]
       ELSE
         LET roleUpper == toUpperCase(IF role # NoRole THEN role ELSE tag)
             summary == IF isLandmark \/ isFormElement
                        THEN buildInteractionSummary(countInteractiveDescendants(element))
                        ELSE NoSummary
             line == [Line(roleUpper, NoRef, item.indent, element)
                        EXCEPT !.summary = summary]
         IN structureLoop(
              [st EXCEPT
                 !.queue = rest \o QueueItems(children(element), item.depth + 1,
                                              item.indent + 1),
                 !.processedElements = @ \cup {element},
                 !.lines = Append(@, line),
                 !.currentLineCount = countLine(@)], opts)

snapshotStructure(root, refMap, opts) ==
  LET cleared == clearRegistry(refMap)
      st == structureLoop(
              [queue |-> <<[element |-> root, depth |-> 0, indent |-> 0]>>,
               currentLineCount |-> 0, truncated |-> FALSE, lines |-> <<>>,
               processedElements |-> {}], opts)
      totalElements == Len(st.lines)
  IN [reg |-> cleared,
      data |->
        [mode |-> "structure", opts |-> opts, error |-> "", page |-> NoPage,
         elements |-> <<>>, rendered |-> st.lines, lines |-> st.lines,
         refs |-> EmptyMap,
         header |-> [kind |-> "STRUCTURE", elements |-> totalElements,
                     refs |-> 0, truncated |-> st.truncated,
                     grep |-> <<>>, matches |-> 0],
         metadata |->
           [totalInteractiveElements |-> 0,
            capturedElements |-> totalElements,
            quality |-> IF st.truncated THEN "medium" ELSE "high",
            depthLimited |-> FALSE, warnings |-> {}]]]

(* ---------------------------------------------------------------------- *)
(* Outline mode.  The elements of the model carry no id, aria-label or     *)
(* class, so the named-section and classed-div branches never apply.       *)
(* ---------------------------------------------------------------------- *)
RECURSIVE buildOutline(_, _, _, _, _)
RECURSIVE buildOutlineChildren(_, _, _, _, _)

AddRef(acc, role, roleUpper, indent, element) ==
  LET ref == issueRef(acc.refCounter)
  IN [acc EXCEPT
        !.refCounter = @ + 1,
        !.reg = setRef(@, ref, element),
        !.refs = putRefInfo(@, ref, [role |-> role, bbox |-> FALSE]),
        !.lines = Append(@, Line(roleUpper, ref, indent, element)),
        !.sectionCount = @ + 1]

buildOutline(element, depth, indent, opts, acc) ==
  IF depth > opts.maxDepth THEN acc
  ELSE IF ~opts.includeHidden /\ ~isVisible(element, FALSE) THEN acc
  ELSE
    LET role == getRole(element)
        tag == tagName(element)
        counted ==
          [acc EXCEPT
             !.headingCount = IF startsWithHeading(role) THEN @ + 1 ELSE @,
             !.landmarkCount = IF role \in LANDMARK_ROLES THEN @ + 1 ELSE @]
        isLandmarkRole == role # NoRole /\ role \in LANDMARK_ROLES
        shouldInclude ==
          isLandmarkRole \/ startsWithHeading(role) \/ tag = "article"
          \/ (tag \in {"ul", "ol"}
              /\ { c \in Nodes : doc[c].parent = element /\ tagName(c) = "li" } # {})
          \/ tag = "pre"
        after ==
          IF isLandmarkRole
          THEN AddRef(counted, role, toUpperCase(role), indent, element)
          ELSE IF startsWithHeading(role)
          THEN [counted EXCEPT !.lines = Append(@, Line("HEADING", NoRef, indent, element))]
          ELSE IF tag = "article"
          THEN AddRef(counted, "article", "ARTICLE", indent, element)
          ELSE IF tag \in {"ul", "ol"}
          THEN IF shouldInclude
               THEN [counted EXCEPT !.lines = Append(@, Line("LIST", NoRef, indent, element))]
               ELSE counted
          ELSE IF tag = "pre"
          THEN [counted EXCEPT !.lines = Append(@, Line("CODE", NoRef, indent, element))]
          ELSE counted
        nextIndent == IF shouldInclude THEN indent + 1 ELSE indent
    IN buildOutlineChildren(children(element), depth + 1, nextIndent, opts, after)

buildOutlineChildren(cs, depth, indent, opts, acc) ==
  IF cs = <<>> THEN acc
  ELSE buildOutlineChildren(Tail(cs), depth, indent, opts,
         buildOutline(Head(cs), depth, indent, opts, acc))

snapshotOutline(root, refMap, opts) ==
  LET cleared == clearRegistry(refMap)
      acc == buildOutline(root, 0, 0, opts,
               [lines |-> <<>>, refs |-> EmptyMap, refCounter |-> initialRefCounter(refMap), reg |-> cleared,
                landmarkCount |-> 0, sectionCount |-> 0, headingCount |-> 0])
      grepped == opts.grep.pattern # <<>>
      grepResult == grepLines(acc.lines, opts.grep)
      filteredLines == IF grepped THEN grepResult.items ELSE acc.lines
  IN [reg |-> acc.reg,
      data |->
        [mode |-> "outline", opts |-> opts, error |-> "", page |-> NoPage,
         elements |-> <<>>, rendered |-> acc.lines, lines |-> filteredLines,
         refs |-> acc.refs,
         header |-> [kind |-> "OUTLINE", elements |-> acc.landmarkCount,
                     refs |-> acc.sectionCount, truncated |-> FALSE,
                     grep |-> IF grepped THEN grepResult.pattern ELSE <<>>,
                     matches |-> IF grepped THEN grepResult.matchCount ELSE 0],
         metadata |->
           [totalInteractiveElements |-> acc.sectionCount,
            capturedElements |-> acc.refCounter,
            quality |-> "high", depthLimited |-> FALSE, warnings |-> {}]]]

(* ---------------------------------------------------------------------- *)
(* Content mode (tree format, no grep)                                     *)
(* ---------------------------------------------------------------------- *)
RECURSIVE collectSections(_, _, _)
RECURSIVE collectSectionsChildren(_, _, _)

collectSections(element, depth, opts) ==
  IF depth > opts.maxDepth THEN <<>>
  ELSE IF ~opts.includeHidden /\ ~isVisible(element, FALSE) THEN <<>>
  ELSE
    LET role == getRole(element)
        isSection == role # NoRole /\ (role \in LANDMARK_ROLES \/ role = "article")
    IN (IF isSection THEN <<element>> ELSE <<>>)
       \o collectSectionsChildren(children(element), depth + 1, opts)

collectSectionsChildren(cs, depth, opts) ==
  IF cs = <<>> THEN <<>>
  ELSE collectSections(Head(cs), depth, opts)
       \o collectSectionsChildren(Tail(cs), depth, opts)

RECURSIVE extractContentLines(_)
RECURSIVE extractContentLinesChildren(_)

extractContentLines(element) ==
  IF startsWithHeading(getRole(element))
  THEN <<Line("HEADING", NoRef, 1, element)>>
  ELSE extractContentLinesChildren(children(element))

extractContentLinesChildren(cs) ==
  IF cs = <<>> THEN <<>>
  ELSE extractContentLines(Head(cs)) \o extractContentLinesChildren(Tail(cs))

RECURSIVE contentLines(_)
contentLines(sections) ==
  IF sections = <<>> THEN <<>>
  ELSE <<Line("SECTION", NoRef, 0, Head(sections))>>
       \o extractContentLines(Head(sections))
       \o <<Line("", NoRef, 0, Absent)>>
       \o contentLines(Tail(sections))

RECURSIVE buildSemanticXPath(_)
(* the tag names from the document root down to the element *)
buildSemanticXPath(element) ==
  IF doc[element].parent = 0 THEN <<tagName(element)>>
  ELSE Append(buildSemanticXPath(doc[element].parent), tagName(element))

(* element.querySelector('h1, ..., h6') is not null *)
hasHeading(element) ==
  \E n \in Nodes : element \in Ancestors(n) /\ startsWithHeading(getRole(n))

(* the searchable record of a section: role, heading text, semantic path *)
buildElementSearchData(element) ==
  [element |-> element,
   text |-> <<getRole(element)>>
            \o (IF hasHeading(element) THEN <<"Welcome">> ELSE <<>>)
            \o buildSemanticXPath(element)]

RECURSIVE searchDataList(_)
(* sections.map(s => s.searchData) *)
searchDataList(sections) ==
  IF sections = <<>> THEN <<>>
  ELSE <<buildElementSearchData(Head(sections))>> \o searchDataList(Tail(sections))

(* the pattern filter applied to the searchable records *)
grepElements(records, grepOpts) == grepItems(records, grepOpts, "text")

(* mutant: every collected section survives the filter *)
filterSectionsKeepAll(sections, matched) == sections

(* sections.filter(s => matchedSet.has(s.element)) *)
filterSections(sections, matched) ==
  LET matchedSet == { matched[k].element : k \in 1..Len(matched) }
      has(section) == section \in matchedSet
  IN SelectSeq(sections, has)

snapshotContent(root, refMap, opts) ==
  LET cleared == clearRegistry(refMap)
      sections == collectSections(root, 0, opts)
      grepped == opts.grep.pattern # <<>>
      grepResult == grepElements(searchDataList(sections), opts.grep)
      filteredSections == IF grepped THEN filterSections(sections, grepResult.items)
                          ELSE sections
      lines == contentLines(filteredSections)
  IN [reg |-> cleared,
      data |->
        [mode |-> "content", opts |-> opts, error |-> "", page |-> NoPage,
         elements |-> sections, rendered |-> lines, lines |-> lines,
         refs |-> EmptyMap,
         header |-> [kind |-> "CONTENT", elements |-> Len(filteredSections),
                     refs |-> 0, truncated |-> FALSE,
                     grep |-> IF grepped THEN grepResult.pattern ELSE <<>>,
                     matches |-> IF grepped THEN grepResult.matchCount ELSE 0],
         metadata |->
           [totalInteractiveElements |-> Len(filteredSections),
            capturedElements |-> Cardinality(DOMAIN EmptyMap),
            quality |-> "high", depthLimited |-> FALSE, warnings |-> {}]]]

(* ---------------------------------------------------------------------- *)
(* extract(): content as HTML or Markdown                                  *)
(* ---------------------------------------------------------------------- *)
RECURSIVE extractMarkdownContent(_, _, _)
RECURSIVE extractMarkdownChildren(_, _, _)

extractMarkdownContent(element, o, depth) ==
  IF depth > o.maxDepth THEN <<>>
  ELSE IF ~o.includeHidden /\ ~isVisible(element, FALSE) THEN <<>>
  ELSE IF startsWithHeading(getRole(element))
  THEN <<Line("#", NoRef, 0, element), Line("", NoRef, 0, Absent)>>
  ELSE IF tagName(element) = "a" /\ o.includeLinks
  THEN <<Line("[link]", NoRef, 0, element), Line("", NoRef, 0, Absent)>>
  ELSE extractMarkdownChildren(children(element), o, depth + 1)

extractMarkdownChildren(cs, o, depth) ==
  IF cs = <<>> THEN <<>>
  ELSE extractMarkdownContent(Head(cs), o, depth)
       \o extractMarkdownChildren(Tail(cs), o, depth)

extractMarkdown(root, o) ==
  <<Line("<!-- source -->", NoRef, 0, Absent), Line("", NoRef, 0, Absent)>>
    \o extractMarkdownContent(root, o, 0)

(* root.outerHTML *)
extractHtml(root, o) == <<Line("outerHTML", NoRef, 0, root)>>

(* document.querySelector(selector) for a tag selector: the first match in
   document order, Absent when nothing matches *)
querySelector(selector) ==
  LET all == collectElements(1, TraverseOptions(Cardinality(Nodes), TRUE, FALSE))
      hits == SelectSeq(all, LAMBDA n : tagName(n) = selector)
  IN IF hits = <<>> THEN Absent ELSE Head(hits)

(* extract after its root was determined; options left out take their
   defaults: format markdown, includeLinks true, includeImages false *)
extract(root, opts) ==
  LET format == IF opts.format = "unset" THEN "markdown" ELSE opts.format
      o == [maxDepth |-> opts.maxDepth, includeHidden |-> opts.includeHidden,
            includeLinks |-> opts.includeLinks # "false",
            includeImages |-> opts.includeImages = "true"]
      out == IF root = Absent THEN <<>>
             ELSE IF format = "html" THEN extractHtml(root, o)
             ELSE extractMarkdown(root, o)
  IN [NoResult EXCEPT !.mode = "extract", !.opts = opts,
                      !.rendered = out, !.lines = out]

(* ---------------------------------------------------------------------- *)
(* Head (status) mode                                                      *)
(* ---------------------------------------------------------------------- *)
Descendants(root) == { n \in Nodes : root \in Ancestors(n) }

snapshotHead(root, page, opts) ==
  LET allElements == Descendants(root)
      interactiveElements ==
        { n \in allElements : tagName(n) \in {"button", "a"} \/ doc[n].el.tabindex }
      viewportArea == page.viewportWidth * page.viewportHeight
      hasInteractive == Cardinality(interactiveElements) > 0
      isComplete == page.readyState = "complete"
      status == IF viewportArea = 0 THEN "loading"
                ELSE IF ~hasInteractive THEN "empty"
                ELSE IF isComplete THEN "ready"
                ELSE "interactive"
  IN [mode |-> "head", opts |-> opts, error |-> "", page |-> page,
      elements |-> <<>>, rendered |-> <<>>,
      lines |-> <<Line(status, NoRef, 0, Absent)>>,
      refs |-> EmptyMap,
      header |-> [kind |-> "STATUS", elements |-> Cardinality(allElements),
                  refs |-> Cardinality(interactiveElements), truncated |-> FALSE,
                  grep |-> <<>>, matches |-> 0],
      metadata |->
        [totalInteractiveElements |-> Cardinality(interactiveElements),
         capturedElements |-> 0, quality |-> "high", depthLimited |-> FALSE, warnings |-> {}]]

(* ---------------------------------------------------------------------- *)
(* State machine: a fixed document, one registry shared by all passes, and *)
(* the outcome of the most recent call.                                    *)
(* ---------------------------------------------------------------------- *)
RootOpts == {Absent} \cup (Nodes \ {1})
DepthOpts == 0..MaxDepthOpt
LineOpts == 0..MaxLinesOpt

NewPass(reg) == [reg EXCEPT !.log = <<>>]

Init ==
  /\ doc \in Docs
  /\ registry = [map |-> EmptyMap, log |-> <<>>]
  /\ transport = NewTransport(TRUE)
  /\ result = NoResult

(* collectElements / traverseElements called directly *)
Traverse(root, maxDepth, includeHidden, checkAncestors) ==
  /\ result' = [NoResult EXCEPT
                  !.mode = "traverse",
                  !.opts = [Options(root, maxDepth, includeHidden, 0, NoGrep)
                              EXCEPT !.checkAncestors = checkAncestors],
                  !.elements = traverseElements(root,
                                 TraverseOptions(maxDepth, includeHidden, checkAncestors))]
  /\ UNCHANGED <<doc, registry, transport>>

Head_(rootOpt, body, page) ==
  LET opts == Options(rootOpt, 0, FALSE, 0, NoGrep)
      root == validateRoot(rootOpt, body)
  IN /\ result' = IF root = Absent THEN Thrown("head", "INVALID_ROOT")
                  ELSE snapshotHead(root, page, opts)
     /\ UNCHANGED <<doc, registry, transport>>

Interactive(rootOpt, body, page, maxDepth, includeHidden, grep) ==
  LET opts == Options(rootOpt, maxDepth, includeHidden, 0, grep)
      root == validateRoot(rootOpt, body)
      out == snapshotInteractive(root, page, NewPass(registry), opts)
  IN /\ IF root = Absent
        THEN result' = Thrown("interactive", "INVALID_ROOT")
             /\ registry' = NewPass(registry)
        ELSE result' = out.data /\ registry' = out.reg
     /\ UNCHANGED <<doc, transport>>

Structure(rootOpt, body, maxDepth, includeHidden, maxLines) ==
  LET opts == Options(rootOpt, maxDepth, includeHidden, maxLines, NoGrep)
      root == validateRoot(rootOpt, body)
      out == snapshotStructure(root, NewPass(registry), opts)
  IN /\ IF root = Absent
        THEN result' = Thrown("structure", "INVALID_ROOT")
             /\ registry' = NewPass(registry)
        ELSE result' = out.data /\ registry' = out.reg
     /\ UNCHANGED <<doc, transport>>

Outline(rootOpt, body, maxDepth, includeHidden, grep) ==
  LET opts == Options(rootOpt, maxDepth, includeHidden, 0, grep)
      root == validateRoot(rootOpt, body)
      out == snapshotOutline(root, NewPass(registry), opts)
  IN /\ IF root = Absent
        THEN result' = Thrown("outline", "INVALID_ROOT")
             /\ registry' = NewPass(registry)
        ELSE result' = out.data /\ registry' = out.reg
     /\ UNCHANGED <<doc, transport>>

Content(rootOpt, body, maxDepth, includeHidden) ==
  LET opts == Options(rootOpt, maxDepth, includeHidden, 0, NoGrep)
      root == validateRoot(rootOpt, body)
      out == snapshotContent(root, NewPass(registry), opts)
  IN /\ IF root = Absent
        THEN result' = Thrown("content", "INVALID_ROOT")
             /\ registry' = NewPass(registry)
        ELSE result' = out.data /\ registry' = out.reg
     /\ UNCHANGED <<doc, transport>>

(* snapshotContent called with a grep pattern *)
ContentGrep(rootOpt, body, maxDepth, includeHidden, grep) ==
  LET opts == Options(rootOpt, maxDepth, includeHidden, 0, grep)
      root == validateRoot(rootOpt, body)
      out == snapshotContent(root, NewPass(registry), opts)
  IN /\ IF root = Absent
        THEN result' = Thrown("content", "INVALID_ROOT")
             /\ registry' = NewPass(registry)
        ELSE result' = out.data /\ registry' = out.reg
     /\ UNCHANGED <<doc, transport>>

(* snapshotContent called with format / includeLinks / includeImages *)
ContentFormatted(rootOpt, body, maxDepth, includeHidden, format, includeLinks, includeImages) ==
  LET opts == Formatted(Options(rootOpt, maxDepth, includeHidden, 0, NoGrep),
                        format, includeLinks, includeImages)
      root == validateRoot(rootOpt, body)
      out == snapshotContent(root, NewPass(registry), opts)
  IN /\ IF root = Absent
        THEN result' = Thrown("content", "INVALID_ROOT")
             /\ registry' = NewPass(registry)
        ELSE result' = out.data /\ registry' = out.reg
     /\ UNCHANGED <<doc, transport>>

Extract(rootOpt, body, selector, maxDepth, includeHidden, format, includeLinks, includeImages) ==
  LET opts == [Formatted(Options(rootOpt, maxDepth, includeHidden, 0, NoGrep),
                         format, includeLinks, includeImages)
                 EXCEPT !.selector = selector]
      selected == IF body = Absent THEN Absent ELSE querySelector(selector)
      root == IF selector # "" THEN selected ELSE validateRoot(rootOpt, body)
  IN /\ result' = IF selector = "" /\ root = Absent
                  THEN Thrown("extract", "INVALID_ROOT")
                  ELSE extract(root, opts)
     /\ UNCHANGED <<doc, registry, transport>>

All(rootOpt, body, maxDepth, includeHidden) ==
  LET opts == Options(rootOpt, maxDepth, includeHidden, 0, NoGrep)
      root == validateRoot(rootOpt, body)
      out == snapshotAll(root, NewPass(registry), opts)
  IN /\ IF root = Absent
        THEN result' = Thrown("all", "INVALID_ROOT")
             /\ registry' = NewPass(registry)
        ELSE result' = out.data /\ registry' = out.reg
     /\ UNCHANGED <<doc, transport>>

(* the (options.root, document.body) pairs a caller can pass *)
RootArgs == { <<r, 1>> : r \in RootOpts } \cup { <<Absent, Absent>> }

CallHead == \E rb \in RootArgs, p \in Pages : Head_(rb[1], rb[2], p)

CallInteractive ==
  \E rb \in RootArgs, p \in Pages, d \in DepthOpts, h \in BOOLEAN, g \in InteractiveGreps :
    Interactive(rb[1], rb[2], p, d, h, g)

CallStructure ==
  \E rb \in RootArgs, d \in DepthOpts, h \in BOOLEAN, m \in LineOpts :
    Structure(rb[1], rb[2], d, h, m)

CallOutline ==
  \E rb \in RootArgs, d \in DepthOpts, h \in BOOLEAN, g \in OutlineGreps :
    Outline(rb[1], rb[2], d, h, g)

CallContent == \E rb \in RootArgs, d \in DepthOpts, h \in BOOLEAN : Content(rb[1], rb[2], d, h)

CallAll == \E rb \in RootArgs, d \in DepthOpts, h \in BOOLEAN : All(rb[1], rb[2], d, h)

(* any sequence of passes against the one registry *)
Next ==
  \/ CallHead
  \/ CallInteractive
  \/ CallStructure
  \/ CallOutline
  \/ CallContent
  \/ CallAll

Spec == Init /\ [][Next]_vars

(* a single call on a fresh registry *)
FirstCall == result.mode = "none"

NextOnce ==
  \/ FirstCall /\ CallHead
  \/ FirstCall /\ CallInteractive
  \/ FirstCall /\ CallStructure
  \/ FirstCall /\ CallOutline
  \/ FirstCall /\ CallContent
  \/ FirstCall /\ CallAll

SpecOnce == Init /\ [][NextOnce]_vars

(* content and extract calls with their format options *)
Tristate == {"unset", "true", "false"}

CallContentFormatted ==
  \E rb \in RootArgs, d \in DepthOpts, h \in BOOLEAN,
     f \in {"unset", "tree", "markdown"}, l \in Tristate, i \in Tristate :
    ContentFormatted(rb[1], rb[2], d, h, f, l, i)

CallExtract ==
  \E rb \in RootArgs, sel \in {"", "nav"}, d \in DepthOpts, h \in BOOLEAN,
     f \in {"unset", "html", "markdown"}, l \in Tristate, i \in Tristate :
    Extract(rb[1], rb[2], sel, d, h, f, l, i)

NextConfig ==
  \/ FirstCall /\ CallContentFormatted
  \/ FirstCall /\ CallExtract

SpecConfig == Init /\ [][NextConfig]_vars

(* the pattern filter on its own: texts and patterns over a small alphabet
   with an upper-case letter and a regex metacharacter *)
GrepChars == {"a", "A", "*"}

TextsUpTo(n) == UNION { [1..k -> GrepChars] : k \in 0..n }

TextLine(text) == [Line("", NoRef, 0, Absent) EXCEPT !.text = text]

GrepInputs == { <<TextLine(t), TextLine(u)>> : t, u \in TextsUpTo(MaxTextLen) }

GrepPatterns ==
  { GrepOptions(p, i, v, f) : p \in TextsUpTo(MaxPatLen),
                              i \in BOOLEAN, v \in BOOLEAN, f \in BOOLEAN }

GrepOutcome(name, input, grepOpts, out) ==
  [NoResult EXCEPT
     !.mode = name,
     !.opts = [@ EXCEPT !.grep = grepOpts],
     !.elements = input,
     !.lines = out.items,
     !.header = [NoHeader EXCEPT !.elements = out.totalCount,
                                 !.grep = out.pattern,
                                 !.matches = out.matchCount]]

GrepLines(lines, grepOpts) ==
  /\ result' = GrepOutcome("grepLines", lines, grepOpts, grepLines(lines, grepOpts))
  /\ UNCHANGED <<doc, registry, transport>>

(* the extractor is the field of an item that holds its text *)
GrepItems(items, grepOpts) ==
  /\ result' = GrepOutcome("grepItems", items, grepOpts,
                           grepItems(items, grepOpts, "text"))
  /\ UNCHANGED <<doc, registry, transport>>

MatchesGrep(text, grepOpts) ==
  LET line == TextLine(text)
      hit == matchesGrep(text, grepOpts)
  IN /\ result' = GrepOutcome("matchesGrep", <<line>>, grepOpts,
                     [items |-> IF hit THEN <<line>> ELSE <<>>,
                      pattern |-> grepOpts.pattern,
                      matchCount |-> IF hit THEN 1 ELSE 0, totalCount |-> 1])
     /\ UNCHANGED <<doc, registry, transport>>

InitGrep ==
  /\ doc \in DocsOfSize(1)
  /\ registry = [map |-> EmptyMap, log |-> <<>>]
  /\ transport = NewTransport(TRUE)
  /\ result = NoResult

NextGrep ==
  \/ FirstCall /\ \E in \in GrepInputs, g \in GrepPatterns : GrepLines(in, g)
  \/ FirstCall /\ \E in \in GrepInputs, g \in GrepPatterns : GrepItems(in, g)
  \/ FirstCall /\ \E t \in TextsUpTo(MaxTextLen), g \in GrepPatterns : MatchesGrep(t, g)

SpecGrep == InitGrep /\ [][NextGrep]_vars

(* a single interactive pass over a flat page of interactive elements, some
   of them without a role *)
QualityDocs ==
  UNION { { [i \in 1..(n + 1) |-> IF i = 1 THEN [parent |-> 0, el |-> Body]
                                            ELSE [parent |-> 1, el |-> e[i]]] :
              e \in [2..(n + 1) -> { El("button", FALSE, FALSE),
                                    El("div", TRUE, FALSE) }] } :
          n \in 1..MaxInteractive }

InitQuality ==
  /\ doc \in QualityDocs
  /\ registry = [map |-> EmptyMap, log |-> <<>>]
  /\ transport = NewTransport(TRUE)
  /\ result = NoResult

NextQuality == FirstCall /\ CallInteractive

SpecQuality == InitQuality /\ [][NextQuality]_vars

(* ---------------------------------------------------------------------- *)
(* Markdown tables: a table is its rows in document order, a row the texts *)
(* of its th and td cells; an emitted line is the sequence of its pieces.  *)
(* ---------------------------------------------------------------------- *)
Max(a, b) == IF a >= b THEN a ELSE b

RECURSIVE maxCols(_)
(* maxCols = Math.max(maxCols, rowData.length) over the rows *)
maxCols(tableRows) ==
  IF tableRows = <<>> THEN 0 ELSE Max(Len(Head(tableRows)), maxCols(Tail(tableRows)))

(* mutant: rows keep the length they have *)
padRowNot(row, cols) == row

RECURSIVE padRow(_, _)
(* while (row.length < maxCols) row.push('') *)
padRow(row, cols) == IF Len(row) < cols THEN padRow(Append(row, ""), cols) ELSE row

RECURSIVE join(_, _)
(* cells.join(separator), as the sequence of its pieces *)
join(cells, separator) ==
  IF cells = <<>> THEN <<>>
  ELSE IF Len(cells) = 1 THEN cells
  ELSE <<Head(cells), separator>> \o join(Tail(cells), separator)

(* '| ' + cells.join(' | ') + ' |' *)
tableLine(cells) == <<"| ">> \o join(cells, " | ") \o <<" |">>

extractMarkdownTable(rows) ==
  IF Len(rows) = 0 THEN <<>>
  ELSE
    LET cols == maxCols(rows)
        tableRows == [i \in 1..Len(rows) |-> padRow(rows[i], cols)]
    IN IF cols = 0 THEN <<>>
       ELSE <<tableLine(tableRows[1])>>
            \o <<tableLine([k \in 1..Len(tableRows[1]) |-> "---"])>>
            \o [i \in 1..(Len(tableRows) - 1) |-> tableLine(tableRows[i + 1])]
            \o << <<>> >>

CellTexts == {"", "x"}

RowsUpTo(n) == UNION { [1..k -> CellTexts] : k \in 0..n }

Tables == UNION { [1..k -> RowsUpTo(MaxCols)] : k \in 0..MaxRows }

ExtractMarkdownTable(table) ==
  /\ result' = [NoResult EXCEPT !.mode = "table", !.elements = table,
                                !.lines = extractMarkdownTable(table)]
  /\ UNCHANGED <<doc, registry, transport>>

InitTable ==
  /\ doc \in DocsOfSize(1)
  /\ registry = [map |-> EmptyMap, log |-> <<>>]
  /\ transport = NewTransport(TRUE)
  /\ result = NoResult

NextTable == FirstCall /\ \E table \in Tables : ExtractMarkdownTable(table)

SpecTable == InitTable /\ [][NextTable]_vars

(* ---------------------------------------------------------------------- *)
(* extract() with maxLength: strings are sequences of characters; a        *)
(* maxLength of 0 stands for an option that was left out.                  *)
(* ---------------------------------------------------------------------- *)
(* str.slice(0, n) for n >= 0 *)
slice(str, n) == SubSeq(str, 1, IF n < Len(str) THEN n ELSE Len(str))

(* '<!-- truncated -->' *)
HtmlMarker == <<"<", "!", "-", "-", " ", "t", "r", "u", "n", "c", "a", "t", "e", "d", " ", "-", "-", ">">>

(* '\n\n<!-- truncated -->' *)
MarkdownMarker == <<"\n", "\n">> \o HtmlMarker

(* if (maxLength && html.length > maxLength)
     html = html.slice(0, maxLength) + '<!-- truncated -->' *)
truncateHtml(html, maxLength) ==
  IF maxLength # 0 /\ Len(html) > maxLength
  THEN slice(html, maxLength) \o HtmlMarker
  ELSE html

(* mutant: room for the marker is taken out of maxLength *)
truncateMarkdownInside(output, maxLength) ==
  IF maxLength # 0 /\ Len(output) > maxLength
  THEN slice(output, IF maxLength > Len(MarkdownMarker)
                     THEN maxLength - Len(MarkdownMarker) ELSE 0) \o MarkdownMarker
  ELSE output

(* if (maxLength && output.length > maxLength)
     output = output.slice(0, maxLength) + '\n\n<!-- truncated -->' *)
truncateMarkdown(output, maxLength) ==
  IF maxLength # 0 /\ Len(output) > maxLength
  THEN slice(output, maxLength) \o MarkdownMarker
  ELSE output

(* the text of a paragraph *)
Texts == UNION { [1..k -> {"x"}] : k \in 0..MaxTextChars }

(* root.outerHTML of a paragraph *)
outerHTML(text) == <<"<", "p", ">">> \o text \o <<"<", "/", "p", ">">>

(* lines.join('\n') of the source comment, an empty line, the paragraph
   text and the empty line after it *)
markdownOutput(text) ==
  <<"<", "!", "-", "-", " ", "s", "o", "u", "r", "c", "e", ":", " ", "a", "b", "o", "u", "t", ":", "b", "l", "a", "n", "k", " ", "-", "-", ">", "\n", "\n">>
    \o (IF text = <<>> THEN <<>> ELSE text \o <<"\n", "\n">>)

ExtractTruncated(format, text, maxLength) ==
  LET output == IF format = "html" THEN outerHTML(text) ELSE markdownOutput(text)
      returned == IF format = "html" THEN truncateHtml(output, maxLength)
                  ELSE truncateMarkdown(output, maxLength)
  IN /\ result' = [NoResult EXCEPT
                     !.mode = "extractString",
                     !.opts = [@ EXCEPT !.format = format, !.maxLength = maxLength],
                     !.rendered = output, !.lines = returned]
     /\ UNCHANGED <<doc, registry, transport>>

NextTruncate ==
  FirstCall /\ \E f \in {"html", "markdown"}, t \in Texts, m \in 0..MaxLengthOpt :
                 ExtractTruncated(f, t, m)

SpecTruncate == InitTable /\ [][NextTruncate]_vars

(* ---------------------------------------------------------------------- *)
(* grep(pattern, text, options) of the grep package.  An emitted line is   *)
(* its number, its separator and its text; without lineNumbers the number  *)
(* is 0 and the separator empty.                                           *)
(* ---------------------------------------------------------------------- *)
RECURSIVE matchingIndices(_, _, _, _)
(* the first loop of grep: indices whose line satisfies the predicate, up to
   maxCount of them *)
matchingIndices(lines, i, o, found) ==
  IF i > Len(lines) THEN found
  ELSE
    LET matches == regexTest(compile(o.pattern, <<>>), lines[i], FALSE)
        shouldInclude == IF o.invert THEN ~matches ELSE matches
    IN IF ~shouldInclude THEN matchingIndices(lines, i + 1, o, found)
       ELSE IF o.maxCount > 0 /\ Len(found) + 1 >= o.maxCount
       THEN Append(found, i)
       ELSE matchingIndices(lines, i + 1, o, Append(found, i))

RECURSIVE contextWindow(_, _, _, _, _, _)
(* the inner loop: the lines startIdx..endIdx not yet included *)
contextWindow(lines, i, endIdx, matchIdx, o, acc) ==
  IF i > endIdx THEN acc
  ELSE IF i \in acc.includedIndices
  THEN contextWindow(lines, i + 1, endIdx, matchIdx, o, acc)
  ELSE
    LET separator == IF i = matchIdx THEN ":" ELSE "-"
        out == IF o.lineNumbers THEN [num |-> i, sep |-> separator, line |-> lines[i]]
               ELSE [num |-> 0, sep |-> "", line |-> lines[i]]
    IN contextWindow(lines, i + 1, endIdx, matchIdx, o,
         [includedIndices |-> acc.includedIndices \cup {i},
          result |-> Append(acc.result, out)])

RECURSIVE withContext(_, _, _, _)
(* the loop over matchingIndices *)
withContext(lines, indices, o, acc) ==
  IF indices = <<>> THEN acc
  ELSE
    LET matchIdx == Head(indices)
        startIdx == IF matchIdx - o.before < 1 THEN 1 ELSE matchIdx - o.before
        endIdx == IF matchIdx + o.after > Len(lines) THEN Len(lines)
                  ELSE matchIdx + o.after
    IN withContext(lines, Tail(indices), o,
         contextWindow(lines, startIdx, endIdx, matchIdx, o, acc))

RECURSIVE insertByNum(_, _)
insertByNum(sorted, item) ==
  IF sorted = <<>> THEN <<item>>
  ELSE IF sorted[Len(sorted)].num <= item.num THEN Append(sorted, item)
  ELSE Append(insertByNum(SubSeq(sorted, 1, Len(sorted) - 1), item), sorted[Len(sorted)])

RECURSIVE sortByNum(_)
(* result.sort((a, b) => numA - numB): stable, by the leading number *)
sortByNum(items) ==
  IF items = <<>> THEN <<>>
  ELSE insertByNum(sortByNum(SubSeq(items, 1, Len(items) - 1)), items[Len(items)])

grep(lines, o) ==
  LET indices == matchingIndices(lines, 1, o, <<>>)
      built == withContext(lines, indices, o, [includedIndices |-> {}, result |-> <<>>]).result
  IN IF o.count THEN <<[num |-> Len(indices), sep |-> "", line |-> <<>>]>>
     ELSE IF (o.before > 0 \/ o.after > 0) /\ built # <<>> /\ o.lineNumbers
     THEN sortByNum(built)
     ELSE built

GrepTexts == UNION { [1..k -> {<<"x">>, <<"y">>}] : k \in 1..MaxGrepLines }

GrepCalls ==
  [pattern : {<<"x">>}, invert : BOOLEAN, lineNumbers : BOOLEAN, count : BOOLEAN,
   maxCount : {0, 1}, before : 0..MaxContext, after : 0..MaxContext]

Grep(lines, o) ==
  /\ result' = [NoResult EXCEPT !.mode = "grep", !.opts = o,
                                !.elements = lines, !.lines = grep(lines, o)]
  /\ UNCHANGED <<doc, registry, transport>>

NextGrepText == FirstCall /\ \E lines \in GrepTexts, o \in GrepCalls : Grep(lines, o)

SpecGrepText == InitTable /\ [][NextGrepText]_vars

(* ---------------------------------------------------------------------- *)
(* extractTextWithLinks: inline Markdown.  Node 1 is the formatted         *)
(* element; a node with tag #text is a text node.  The result is the       *)
(* sequence of its pieces: the text of a text node, named by the node, or  *)
(* a piece of markup.                                                      *)
(* ---------------------------------------------------------------------- *)
isTextNode(n) == tagName(n) = "#text"

Piece(n) == [kind |-> "text", node |-> n, mark |-> ""]

Markup(m) == [kind |-> "markup", node |-> Absent, mark |-> m]

RECURSIVE textContent(_)
RECURSIVE textContentOfAll(_)
(* node.textContent: the text nodes at or below the node, in document order *)
textContent(n) ==
  IF isTextNode(n) THEN <<Piece(n)>> ELSE textContentOfAll(children(n))

textContentOfAll(cs) ==
  IF cs = <<>> THEN <<>> ELSE textContent(Head(cs)) \o textContentOfAll(Tail(cs))

(* acceptNode: text nodes and a, code, strong/b, em/i are handed to the
   loop, every other element is skipped and its children are still walked *)
acceptNode(n) == isTextNode(n) \/ tagName(n) \in {"a", "code", "strong", "em"}

RECURSIVE walkerLoop(_, _)
(* while ((node = walker.nextNode())): stack holds the nodes still to walk,
   in document order *)
walkerLoop(stack, acc) ==
  IF stack = <<>> THEN acc
  ELSE
    LET node == Head(stack)
        rest == children(node) \o Tail(stack)
        text == textContent(node)
    IN IF ~acceptNode(node) THEN walkerLoop(rest, acc)
       ELSE IF isTextNode(node)
       THEN IF doc[node].parent \in acc.processedElements
            THEN walkerLoop(rest, acc)
            ELSE walkerLoop(rest, [acc EXCEPT !.result = @ \o text])
       ELSE
         LET converted ==
               CASE tagName(node) = "a" ->
                      IF text # <<>>
                      THEN <<Markup("[")>> \o text \o <<Markup("](href)")>>
                      ELSE text
                 [] tagName(node) = "code" ->
                      <<Markup("backtick")>> \o text \o <<Markup("backtick")>>
                 [] tagName(node) = "strong" -> <<Markup("**")>> \o text \o <<Markup("**")>>
                 [] OTHER -> <<Markup("*")>> \o text \o <<Markup("*")>>
         IN walkerLoop(rest,
              [processedElements |-> acc.processedElements \cup {node},
               result |-> acc.result \o converted])

(* without links the clean text of the element is returned *)
extractTextWithLinks(element, includeLinks) ==
  IF ~includeLinks THEN textContent(element)
  ELSE walkerLoop(children(element), [processedElements |-> {}, result |-> <<>>]).result

InlineElements ==
  { El(t, FALSE, FALSE) : t \in {"#text", "a", "strong", "em", "span"} }

(* trees in which text nodes are leaves *)
InlineDocs ==
  UNION { { d \in DocsOver(n, InlineElements) :
              \A i \in 2..n : d[d[i].parent].el.tag # "#text" } :
          n \in 2..MaxInlineNodes }

ExtractTextWithLinks(includeLinks) ==
  /\ result' = [NoResult EXCEPT
                  !.mode = "inline",
                  !.opts = [@ EXCEPT !.includeLinks = IF includeLinks THEN "true" ELSE "false"],
                  !.lines = extractTextWithLinks(1, includeLinks)]
  /\ UNCHANGED <<doc, registry, transport>>

InitInline ==
  /\ doc \in InlineDocs
  /\ registry = [map |-> EmptyMap, log |-> <<>>]
  /\ transport = NewTransport(TRUE)
  /\ result = NoResult

NextInline == FirstCall /\ \E l \in BOOLEAN : ExtractTextWithLinks(l)

SpecInline == InitInline /\ [][NextInline]_vars

(* ---------------------------------------------------------------------- *)
(* ChromeExtensionTransport.  A step is what runs between two awaits.      *)
(* connects holds the promise of every connect() call, sends the position  *)
(* of every send() call, wire what was handed to and received from         *)
(* chrome.runtime.sendMessage, history the methods called from outside.    *)
(* ---------------------------------------------------------------------- *)
(* this.setState(newState) *)
setState(t, newState) == [t EXCEPT !.state = newState]

(* sendRaw(command): the message is handed to chrome.runtime.sendMessage *)
sendRaw(t, action, call) ==
  [t EXCEPT !.wire = Append(@, [kind |-> action, call |-> call])]

(* connect() up to its await: the promise it returns is the last of connects *)
connect(t) ==
  IF t.state = "connected" \/ t.state = "connecting"
  THEN [t EXCEPT !.connects = Append(@, "resolved")]
  ELSE sendRaw([setState(t, "connecting") EXCEPT !.connects = Append(@, "pending")],
               "popupInitialize", Len(t.connects) + 1)

(* the rest of connect(), run when the popupInitialize reply arrives: the
   try and the catch branch both end in setState('connected') *)
connectResumed(t, c) ==
  [setState(t, "connected") EXCEPT
     !.connects[c] = "resolved",
     !.wire = Append(@, [kind |-> "reply", call |-> c])]

(* disconnect() *)
disconnect(t) ==
  IF t.state = "disconnected" THEN t
  ELSE setState([t EXCEPT !.initPromise = NoPromise], "disconnected")

(* ensureConnected() up to the promise it returns *)
ensureConnected(t) ==
  IF t.state = "connected" THEN [t |-> t, promise |-> NoPromise]
  ELSE IF t.initPromise = NoPromise
  THEN LET started == connect(t)
       IN [t |-> [started EXCEPT !.initPromise = Len(started.connects)],
           promise |-> Len(started.connects)]
  ELSE [t |-> t, promise |-> t.initPromise]

(* send(command) up to its first await *)
send(t) ==
  LET s == Len(t.sends) + 1
  IN IF t.autoConnect /\ t.state = "disconnected"
     THEN LET e == ensureConnected(t)
          IN [e.t EXCEPT !.sends = Append(@, [pc |-> "awaitInit", awaits |-> e.promise])]
     ELSE sendRaw([t EXCEPT !.sends = Append(@, [pc |-> "sent", awaits |-> NoPromise])],
                  "command", s)

(* the rest of send(), run when the awaited promise is resolved *)
sendResumed(t, s) ==
  sendRaw([t EXCEPT !.sends[s].pc = "sent"], "command", s)

Called(t, method) == [t EXCEPT !.history = Append(@, method)]

Connect ==
  /\ Len(transport.history) < MaxCalls
  /\ transport' = Called(connect(transport), "connect")
  /\ UNCHANGED <<doc, registry, result>>

ConnectResumed(c) ==
  /\ transport.connects[c] = "pending"
  /\ transport' = connectResumed(transport, c)
  /\ UNCHANGED <<doc, registry, result>>

Disconnect ==
  /\ Len(transport.history) < MaxCalls
  /\ transport' = Called(disconnect(transport), "disconnect")
  /\ UNCHANGED <<doc, registry, result>>

Send ==
  /\ Len(transport.history) < MaxCalls
  /\ transport' = Called(send(transport), "send")
  /\ UNCHANGED <<doc, registry, result>>

SendResumed(s) ==
  /\ transport.sends[s].pc = "awaitInit"
  /\ transport.connects[transport.sends[s].awaits] = "resolved"
  /\ transport' = sendResumed(transport, s)
  /\ UNCHANGED <<doc, registry, result>>

InitTransport ==
  /\ doc \in DocsOfSize(1)
  /\ registry = [map |-> EmptyMap, log |-> <<>>]
  /\ result = NoResult
  /\ \E a \in BOOLEAN : transport = NewTransport(a)

NextTransport ==
  \/ Connect
  \/ \E c \in DOMAIN transport.connects : ConnectResumed(c)
  \/ Disconnect
  \/ Send
  \/ \E s \in DOMAIN transport.sends : SendResumed(s)

SpecTransport == InitTransport /\ [][NextTransport]_vars

(* a single content pass with a grep pattern over pages of nested sections *)
SectionDocs ==
  UNION { { [i \in 1..n |-> IF i = 1 THEN [parent |-> 0, el |-> Body]
                                      ELSE [parent |-> p[i], el |-> e[i]]] :
              p \in ParentFns(n),
              e \in [2..n -> { El("nav", FALSE, FALSE), El("article", FALSE, FALSE),
                               El("h1", FALSE, FALSE), El("h1", FALSE, TRUE) }] } :
          n \in 2..MaxSectionNodes }

ContentGreps ==
  { NoGrep } \cup
  { GrepOptions(Word(w), FALSE, v, FALSE) : w \in {"navigation", "article", "Welcome"},
                                           v \in BOOLEAN }

InitContent ==
  /\ doc \in SectionDocs
  /\ registry = [map |-> EmptyMap, log |-> <<>>]
  /\ transport = NewTransport(TRUE)
  /\ result = NoResult

NextContent ==
  FirstCall /\ \E rb \in RootArgs, d \in {1, MaxSectionNodes}, h \in BOOLEAN, g \in ContentGreps :
                 ContentGrep(rb[1], rb[2], d, h, g)

SpecContent == InitContent /\ [][NextContent]_vars

(* a single interactive or all pass over a document with failing nodes *)
InitFault ==
  /\ doc \in FaultDocs
  /\ registry = [map |-> EmptyMap, log |-> <<>>]
  /\ transport = NewTransport(TRUE)
  /\ result = NoResult

NextFault ==
  \/ FirstCall /\ CallInteractive
  \/ FirstCall /\ CallAll

SpecFault == InitFault /\ [][NextFault]_vars

(* the traversal engine on its own *)
NextTraverse ==
  \E root \in Nodes, d \in DepthOpts, h \in BOOLEAN, a \in BOOLEAN :
    Traverse(root, d, h, a)

SpecTraverse == Init /\ [][NextTraverse]_vars

(* ---------------------------------------------------------------------- *)
(* Properties                                                              *)
(* ---------------------------------------------------------------------- *)
Returned == result.mode # "none" /\ result.error = ""

RenderModes == {"head", "interactive", "structure", "outline", "content", "all"}
RegistryModes == {"interactive", "structure", "outline", "content", "all"}
RefModes == {"interactive", "outline", "all"}

CarriesRef(line) == line.ref # NoRef

(* the lines that carry a ref, in emission order *)
Issued(lines) == SelectSeq(lines, CarriesRef)

(* the root the last call rendered *)
EffectiveRoot == IF result.opts.root # Absent THEN result.opts.root ELSE 1

InSubtree(root, n) == n = root \/ root \in Ancestors(n)

(* the nodes from root down to n, both included *)
PathFrom(root, n) == { m \in Nodes : InSubtree(root, m) /\ InSubtree(m, n) }

RelDepth(root, n) == Cardinality(PathFrom(root, n)) - 1

(* C1: metadata.capturedElements equals the number of entries of the
   returned refs table in head, interactive, outline and content modes; in
   structure and all modes it is the number of rendered element lines, the
   refs table being empty in head and structure and holding one entry per
   line that carries a ref in all mode. *)
C1_CapturedElements ==
  (Returned /\ result.mode \in RenderModes) =>
    /\ result.mode \in {"head", "interactive", "outline", "content"} =>
         result.metadata.capturedElements = Cardinality(DOMAIN result.refs)
    /\ result.mode \in {"structure", "all"} =>
         result.metadata.capturedElements = Len(result.rendered)
    /\ result.mode = "all" =>
         Cardinality(DOMAIN result.refs) = Len(Issued(result.rendered))
    /\ result.mode \in {"head", "structure"} => result.refs = EmptyMap

C1_Witness ==
  /\ Returned /\ result.mode = "interactive"
  /\ result.metadata.capturedElements = 2
  /\ Cardinality(DOMAIN result.refs) = 2

(* C1 as first stated: in every mode capturedElements equals the number of
   entries of the refs table, head and structure returning an empty table. *)
C1_CapturedEqualsRefs ==
  (Returned /\ result.mode \in RenderModes) =>
    /\ result.metadata.capturedElements = Cardinality(DOMAIN result.refs)
    /\ result.mode \in {"head", "structure"} => result.refs = EmptyMap

(* C2: within one interactive, outline or all pass the k-th ref issued, in
   the order the lines are emitted and counting from 0, is @ref:k, so the
   issued tokens are distinct and are exactly @ref:0 .. @ref:(n-1). *)
C2_RefsContiguous ==
  (Returned /\ result.mode \in RefModes) =>
    LET issued == Issued(result.rendered)
    IN /\ \A k \in 1..Len(issued) : issued[k].ref = RefToken(k - 1)
       /\ DOMAIN result.refs = { RefToken(k) : k \in 0..(Len(issued) - 1) }

C2_Witness ==
  /\ Returned /\ result.mode = "outline"
  /\ Len(Issued(result.rendered)) = 2
  /\ Len(result.rendered) = 2

(* C3: in interactive and outline mode, with or without grep, every line of
   the returned tree that carries a token @ref:N has an entry refs[@ref:N],
   and no token occurs on two lines. *)
C3_LinesHaveRefEntries ==
  (Returned /\ result.mode \in {"interactive", "outline"}) =>
    /\ \A i \in 1..Len(result.lines) :
         CarriesRef(result.lines[i]) => result.lines[i].ref \in DOMAIN result.refs
    /\ \A i, j \in 1..Len(result.lines) :
         (CarriesRef(result.lines[i]) /\ result.lines[i].ref = result.lines[j].ref)
           => i = j

C3_Witness ==
  /\ Returned /\ result.mode = "interactive"
  /\ result.opts.grep.pattern # <<>>
  /\ Len(result.lines) = 1 /\ Len(result.rendered) = 2
  /\ CarriesRef(result.lines[1])

(* C4: after an interactive, outline or all pass the registry maps exactly
   the refs of the returned refs table, each to the node whose rendered line
   carries that ref, and no two refs map to the same node. *)
C4_RegistryMatchesRefs ==
  (Returned /\ result.mode \in RefModes) =>
    /\ DOMAIN registry.map = DOMAIN result.refs
    /\ \A i \in 1..Len(result.rendered) :
         CarriesRef(result.rendered[i]) =>
           RegGet(registry, result.rendered[i].ref) = result.rendered[i].element
    /\ \A r1, r2 \in DOMAIN registry.map :
         registry.map[r1] = registry.map[r2] => r1 = r2

C4_Witness ==
  /\ Returned /\ result.mode = "all"
  /\ Cardinality(DOMAIN registry.map) = 2
  /\ Len(result.rendered) = 2
  /\ result.opts.root # Absent

(* a pass of the given mode started on a fresh registry *)
FreshRegistry == [map |-> EmptyMap, log |-> <<>>]

Rerender(mode, root, page, opts) ==
  CASE mode = "interactive" -> snapshotInteractive(root, page, FreshRegistry, opts)
    [] mode = "structure"   -> snapshotStructure(root, FreshRegistry, opts)
    [] mode = "outline"     -> snapshotOutline(root, FreshRegistry, opts)
    [] mode = "content"     -> snapshotContent(root, FreshRegistry, opts)
    [] mode = "all"         -> snapshotAll(root, FreshRegistry, opts)

(* C5: a pass gives the same tree text, the same refs table and the same
   ref-to-node assignment as a pass of the same mode and options over an
   identical tree that starts from a fresh registry, whatever earlier passes
   left in the registry. *)
C5_Deterministic ==
  (Returned /\ result.mode \in RegistryModes) =>
    LET again == Rerender(result.mode, EffectiveRoot, result.page, result.opts)
    IN /\ again.data.lines = result.lines
       /\ again.data.header = result.header
       /\ DOMAIN again.data.refs = DOMAIN result.refs
       /\ again.reg.map = registry.map

C5_Witness ==
  /\ Returned /\ result.mode = "interactive"
  /\ result.opts.root # Absent
  /\ Len(result.rendered) = 1
  /\ registry.map = (RefToken(0) :> EffectiveRoot)

(* C6: every pass that takes a registry and returns a result calls clear()
   exactly once, before every set(), so a mapping an earlier pass made is
   resolvable afterwards only if this pass issued that ref again. *)
C6_ClearOncePerPass ==
  [][ (result'.mode \in RegistryModes /\ result'.error = "") =>
        /\ Len(registry'.log) >= 1
        /\ registry'.log[1] = "clear"
        /\ \A i \in 2..Len(registry'.log) : registry'.log[i] = "set"
        /\ \A ref \in DOMAIN registry.map :
             RegGet(registry', ref) # Absent => ref \in DOMAIN result'.refs
    ]_vars

C6_Witness ==
  /\ Returned /\ result.mode = "interactive"
  /\ registry.log = <<"clear", "set", "set">>

(* C7: depth-first traversal yields no node deeper than maxDepth and, when
   includeHidden is false, neither an invisible node nor a node below an
   invisible node of the traversed subtree. *)
C7_TraversalPruned ==
  result.mode = "traverse" =>
    \A i \in 1..Len(result.elements) :
      LET item == result.elements[i]
      IN /\ item.depth <= result.opts.maxDepth
         /\ item.depth = RelDepth(result.opts.root, item.element)
         /\ ~result.opts.includeHidden =>
              \A m \in PathFrom(result.opts.root, item.element) : ~doc[m].el.hidden

C7_Witness ==
  /\ result.mode = "traverse"
  /\ ~result.opts.includeHidden /\ ~result.opts.checkAncestors
  /\ result.opts.root = 1 /\ result.opts.maxDepth = 1
  /\ Len(result.elements) = 1
  /\ \E n, m \in Nodes : doc[n].el.hidden /\ doc[m].parent = n /\ ~doc[m].el.hidden

(* the nodes the depth-first traversal of the last call reaches when hidden
   nodes are excluded *)
Reached(n) ==
  /\ InSubtree(EffectiveRoot, n)
  /\ RelDepth(EffectiveRoot, n) <= result.opts.maxDepth
  /\ \A m \in PathFrom(EffectiveRoot, n) : ~doc[m].el.hidden

(* C8: in interactive mode with includeHidden = false the nodes that get a
   ref (and a line) are exactly the reached nodes that are interactive and
   have a role, and refs= in the SNAPSHOT: header is the number of refs. *)
C8_InteractiveRefs ==
  (Returned /\ result.mode = "interactive" /\ ~result.opts.includeHidden) =>
    LET expected == { n \in Nodes : Reached(n) /\ isInteractive(n) /\ getRole(n) # NoRole }
    IN /\ { registry.map[r] : r \in DOMAIN registry.map } = expected
       /\ { result.rendered[i].element : i \in 1..Len(result.rendered) } = expected
       /\ Cardinality(DOMAIN result.refs) = Cardinality(expected)
       /\ result.header.refs = Cardinality(DOMAIN result.refs)

(* one visible button and one display:none link: exactly @ref:0, refs=1 *)
C8_Witness ==
  /\ Returned /\ result.mode = "interactive" /\ ~result.opts.includeHidden
  /\ result.opts.root = Absent /\ result.opts.maxDepth = 1
  /\ \E b, a \in Nodes :
       /\ doc[b].el = El("button", FALSE, FALSE) /\ doc[b].parent = 1
       /\ doc[a].el = El("a", FALSE, TRUE) /\ doc[a].parent = 1
       /\ registry.map = (RefToken(0) :> b)
  /\ DOMAIN result.refs = {RefToken(0)}
  /\ result.header.refs = 1

(* the landmark, heading and form nodes structure mode shows when the line
   budget does not run out *)
Showable(n) ==
  /\ InSubtree(EffectiveRoot, n)
  /\ RelDepth(EffectiveRoot, n) <= result.opts.maxDepth
  /\ \/ getRole(n) \in landmarkRoles
     \/ isHeadingTag(tagName(n))
     \/ tagName(n) = "form"

(* C9: in structure mode, when the line budget runs out while a landmark,
   heading or form node that would be shown is still unrendered, the result
   is marked truncated: '(truncated)' in the header and quality medium. *)
C9_TruncationRecorded ==
  (Returned /\ result.mode = "structure"
     /\ Cardinality({ n \in Nodes : Showable(n) }) > Len(result.lines)) =>
    /\ result.header.truncated
    /\ result.metadata.quality = "medium"

(* C10: structure mode never emits more content lines than maxLines. *)
C10_LineBudget ==
  (Returned /\ result.mode = "structure") =>
    Len(result.lines) <= result.opts.maxLines

C10_Witness ==
  /\ Returned /\ result.mode = "structure"
  /\ Len(result.lines) = result.opts.maxLines
  /\ Cardinality({ n \in Nodes : Showable(n) }) > Len(result.lines)

(* the nodes structure mode rendered *)
Shown == { result.lines[i].element : i \in 1..Len(result.lines) }

Min(a, b) == IF a <= b THEN a ELSE b

(* C11: in structure mode with includeHidden = false only landmark, heading
   and form nodes within maxDepth produce a line, each at most once, and as
   many of them as the line budget allows are rendered whether or not
   isVisible holds for them. *)
C11_SemanticShownEvenHidden ==
  (Returned /\ result.mode = "structure" /\ ~result.opts.includeHidden) =>
    /\ Shown \subseteq { n \in Nodes : Showable(n) }
    /\ Cardinality(Shown) = Len(result.lines)
    /\ Len(result.lines) =
         Min(result.opts.maxLines, Cardinality({ n \in Nodes : Showable(n) }))

C11_Witness ==
  /\ Returned /\ result.mode = "structure" /\ ~result.opts.includeHidden
  /\ \E n \in Shown : ~isVisible(n, FALSE)
  /\ \E n \in Nodes : InSubtree(EffectiveRoot, n) /\ ~Showable(n)

(* the nodes of the rendered subtree strictly above n *)
Above(n) == PathFrom(EffectiveRoot, n) \ {n}

(* an invisible node that is not a landmark, heading or form *)
HiddenPlain(n) == ~isVisible(n, FALSE) /\ ~Showable(n)

(* C12: structure mode does not prune by visibility: with includeHidden =
   false it renders the same lines as with includeHidden = true, so a
   landmark, heading or form below an invisible plain node is still shown. *)
C12_StructureIgnoresVisibility ==
  (Returned /\ result.mode = "structure") =>
    snapshotStructure(EffectiveRoot, FreshRegistry,
        [result.opts EXCEPT !.includeHidden = ~@]).data.lines = result.lines

C12_Witness ==
  /\ Returned /\ result.mode = "structure" /\ ~result.opts.includeHidden
  /\ \E n \in Shown : \E a \in Above(n) : HiddenPlain(a)

(* C12 as first stated: with includeHidden = false nothing below an
   invisible node that is not a landmark, heading or form is rendered. *)
C12_PrunedLikeDepthFirst ==
  (Returned /\ result.mode = "structure" /\ ~result.opts.includeHidden) =>
    \A n \in Shown : \A a \in Above(n) : ~HiddenPlain(a)

(* the nodes of the last call's subtree that depth-first traversal reaches,
   in document order *)
Visited ==
  collectElements(EffectiveRoot,
    TraverseOptions(result.opts.maxDepth, result.opts.includeHidden, FALSE))

(* C13: a failure inside per-node processing, after the root was validated,
   is not raised to the caller: the pass returns a result with a warning. *)
C13_PartialResultOnFailure ==
  (result.mode \in {"interactive", "all"} /\ result.error # "INVALID_ROOT") =>
    /\ result.error = ""
    /\ (\E n \in Nodes : doc[n].el.fault = "xpath" /\ getRole(n) # NoRole
                          /\ isInteractive(n) /\ Reached(n))
         => result.metadata.warnings # {}

(* the visited nodes that get a line when no query fails *)
Rendered(mode) ==
  { n \in { Visited[i] : i \in 1..Len(Visited) } :
      IF mode = "interactive" THEN isInteractive(n) /\ getRole(n) # NoRole
      ELSE isInteractive(n) \/ getRole(n) # NoRole }

(* C15: a node whose geometry or selector query fails still gets its ref,
   line, registry mapping and a refs entry without bbox, and the nodes that
   get a line are those of a pass without failures; the call raises in one
   case only: all mode, when generateSelector fails for a node with a role. *)
C15_RecoveredUnlessSelectorInAll ==
  (result.mode \in {"interactive", "all"} /\ result.error # "INVALID_ROOT"
     /\ \A n \in Nodes : doc[n].el.fault # "xpath") =>
    /\ result.error = "EXCEPTION" <=>
         /\ result.mode = "all"
         /\ \E n \in Rendered("all") :
              doc[n].el.fault = "selector" /\ getRole(n) # NoRole
    /\ result.error = "" =>
         /\ { result.rendered[i].element : i \in 1..Len(result.rendered) }
              = Rendered(result.mode)
         /\ \A i \in 1..Len(result.rendered) :
              LET line == result.rendered[i]
              IN (CarriesRef(line) /\ doc[line.element].el.fault # "none") =>
                   /\ line.ref \in DOMAIN result.refs
                   /\ ~result.refs[line.ref].bbox
                   /\ RegGet(registry, line.ref) = line.element

(* a failing node followed by a node that is rendered normally *)
C15_Witness ==
  /\ result.mode = "interactive" /\ result.error = ""
  /\ Len(result.rendered) = 2
  /\ doc[result.rendered[1].element].el.fault = "selector"
  /\ ~result.refs[RefToken(0)].bbox
  /\ result.refs[RefToken(1)].bbox

(* C15 as first stated: in interactive and all mode a node whose geometry or
   selector query fails still gets its ref, line, registry mapping and a
   refs entry without bbox, and the call does not raise. *)
C15_NodeFailureRecovered ==
  (result.mode \in {"interactive", "all"} /\ result.error # "INVALID_ROOT"
     /\ \A n \in Nodes : doc[n].el.fault # "xpath") =>
    /\ result.error = ""
    /\ \A i \in 1..Len(result.rendered) :
         LET line == result.rendered[i]
         IN (CarriesRef(line) /\ doc[line.element].el.fault \in {"geometry", "selector"}) =>
              /\ line.ref \in DOMAIN result.refs
              /\ ~result.refs[line.ref].bbox
              /\ RegGet(registry, line.ref) = line.element

(* C14: a call with no usable root fails with INVALID_ROOT before the
   registry is cleared, and a content or extract call that sets includeLinks
   or includeImages while format is not markdown fails with INVALID_OPTIONS. *)
C14_ConfigErrorsRejected ==
  /\ result.error = "INVALID_ROOT" => registry.log = <<>>
  /\ (result.mode \in {"content", "extract"}
        /\ validateContentOptions(result.opts) = "INVALID_OPTIONS")
       => result.error = "INVALID_OPTIONS"

(* C16: when a pass leaves out a node because its depth exceeds maxDepth,
   the returned metadata records depthLimited = true. *)
C16_DepthLimitRecorded ==
  (Returned /\ result.mode \in RegistryModes /\ result.opts.includeHidden
     /\ \E n \in Nodes : InSubtree(EffectiveRoot, n)
                          /\ RelDepth(EffectiveRoot, n) > result.opts.maxDepth) =>
    result.metadata.depthLimited

GrepModes == {"grepLines", "grepItems", "matchesGrep"}

(* the call of the last step repeated with other options *)
GrepAgain(grepOpts) ==
  IF result.mode = "grepItems"
  THEN grepItems(result.elements, grepOpts, "text")
  ELSE grepLines(result.elements, grepOpts)

(* C17: for grepLines and grepItems the items selected with invert = true
   and those selected with invert = false are disjoint and together are the
   input list, so the two match counts add up to the total count. *)
C17_InvertPartitions ==
  result.mode \in {"grepLines", "grepItems"} =>
    LET other == GrepAgain([result.opts.grep EXCEPT !.invert = ~@])
    IN /\ \A i \in 1..Len(result.elements) :
            (result.elements[i].text \in { result.lines[k].text : k \in 1..Len(result.lines) })
              # (result.elements[i].text \in { other.items[k].text : k \in 1..Len(other.items) })
       /\ result.header.matches + other.matchCount = result.header.elements
       /\ result.header.elements = Len(result.elements)
       /\ result.header.matches = Len(result.lines)

C17_Witness ==
  /\ result.mode = "grepItems" /\ result.opts.grep.invert
  /\ ~result.opts.grep.fixedStrings
  /\ result.opts.grep.pattern = <<"a", "*">>
  /\ result.header.matches = 0

(* text with upper-case letters folded when the call ignores case *)
Folded(text) ==
  IF result.opts.grep.ignoreCase
  THEN [i \in 1..Len(text) |-> IF text[i] = "A" THEN "a" ELSE text[i]]
  ELSE text

(* pat occurs in text as a run of consecutive symbols *)
Contains(text, pat) ==
  \E off \in 0..Len(text) :
    /\ off + Len(pat) <= Len(text)
    /\ \A k \in 1..Len(pat) : text[off + k] = pat[k]

(* the input text is among the returned items *)
Selects(text) == \E k \in 1..Len(result.lines) : result.lines[k].text = text

(* C18: with fixedStrings a text is selected exactly when it contains the
   pattern as a literal run of characters (compared case-folded under
   ignoreCase, the outcome negated under invert); no regex expansion. *)
C18_FixedStringsLiteral ==
  (result.mode \in GrepModes /\ result.opts.grep.fixedStrings) =>
    \A i \in 1..Len(result.elements) :
      LET text == result.elements[i].text
      IN Selects(text) <=>
           (Contains(Folded(text), Folded(result.opts.grep.pattern))
              # result.opts.grep.invert)

(* the pattern a*: 'aa' is not selected, 'a*' is *)
C18_Witness ==
  /\ result.mode = "grepLines" /\ result.opts.grep.fixedStrings
  /\ ~result.opts.grep.invert /\ ~result.opts.grep.ignoreCase
  /\ result.opts.grep.pattern = <<"a", "*">>
  /\ result.elements = <<TextLine(<<"a", "a">>), TextLine(<<"a", "*">>)>>
  /\ result.lines = <<TextLine(<<"a", "*">>)>>

(* the RegExp constructor rejects the pattern: a * with nothing to repeat *)
FailsToCompile(pat) ==
  /\ pat # <<>>
  /\ \/ pat[1] = "*"
     \/ \E i \in 1..(Len(pat) - 1) : pat[i] = "*" /\ pat[i + 1] = "*"

(* C19: for a pattern that fails to compile, grepLines, grepItems and
   matchesGrep all select exactly the texts that contain the raw pattern as
   a substring (case-folded under ignoreCase), invert applied afterwards. *)
C19_FallbackSubstring ==
  (result.mode \in GrepModes /\ ~result.opts.grep.fixedStrings
     /\ FailsToCompile(result.opts.grep.pattern)) =>
    \A i \in 1..Len(result.elements) :
      LET text == result.elements[i].text
      IN Selects(text) <=>
           (Contains(Folded(text), Folded(result.opts.grep.pattern))
              # result.opts.grep.invert)

C19_Witness ==
  /\ result.mode = "matchesGrep" /\ ~result.opts.grep.fixedStrings
  /\ result.opts.grep.ignoreCase /\ ~result.opts.grep.invert
  /\ result.opts.grep.pattern = <<"*", "A">>
  /\ result.elements = <<TextLine(<<"*", "a">>)>>
  /\ result.header.matches = 1

(* the counts of an interactive pass, taken from its outcome *)
CapturedOfPass == Len(result.rendered)

TotalOfPass ==
  Cardinality({ i \in 1..Len(result.elements) : isInteractive(result.elements[i]) })

AreaOfPass == result.page.viewportWidth * result.page.viewportHeight

LowCase == AreaOfPass = 0 \/ CapturedOfPass = 0

(* C20: in Interactive mode quality is 'low' exactly when the viewport area
   is 0 or nothing was captured; otherwise it is 'medium' exactly when fewer
   than half of the interactive elements were captured, and 'high' when at
   least half were. *)
C20_QualityByHalf ==
  (result.mode = "interactive" /\ result.error = "") =>
    /\ result.metadata.quality \in {"low", "medium", "high"}
    /\ (result.metadata.quality = "low") <=> LowCase
    /\ (result.metadata.quality = "medium") <=>
          (~LowCase /\ 2 * CapturedOfPass < TotalOfPass)
    /\ (result.metadata.quality = "high") <=>
          (~LowCase /\ 2 * CapturedOfPass >= TotalOfPass)

(* one of three interactive elements captured: medium *)
C20_Witness ==
  /\ result.mode = "interactive" /\ result.error = ""
  /\ AreaOfPass > 0
  /\ CapturedOfPass = 1 /\ TotalOfPass = 3
  /\ result.metadata.quality = "medium"

(* C20 as stated: outside the low case, high exactly for a complete capture
   and medium for every incomplete one. *)
C20_HighOnlyWhenComplete ==
  (result.mode = "interactive" /\ result.error = "") =>
    /\ (result.metadata.quality = "low") <=> LowCase
    /\ (result.metadata.quality = "high") <=>
          (~LowCase /\ CapturedOfPass >= TotalOfPass)
    /\ (result.metadata.quality = "medium") <=>
          (~LowCase /\ CapturedOfPass < TotalOfPass)

(* the visited nodes of an all pass that are interactive and have no role *)
RolelessInteractive ==
  { i \in 1..Len(result.elements) :
      getRole(result.elements[i]) = NoRole /\ isInteractive(result.elements[i]) }

(* C21: in All mode a line of a node with a role carries exactly one ref and
   a visited node that has no role and is not interactive produces no line;
   a visited interactive node without a role produces an empty line without
   a ref, so elements= of the ALL: header is refs= plus the number of such
   nodes. *)
C21_AllLinesAndRefs ==
  (Returned /\ result.mode = "all") =>
    /\ \A k \in 1..Len(result.lines) :
         LET line == result.lines[k]
         IN IF getRole(line.element) # NoRole
            THEN line.ref # NoRef /\ line.text # <<>>
            ELSE line.ref = NoRef /\ line.text = <<>> /\ isInteractive(line.element)
    /\ result.header.refs =
         Cardinality({ k \in 1..Len(result.lines) : result.lines[k].ref # NoRef })
    /\ result.header.elements = result.header.refs + Cardinality(RolelessInteractive)
    /\ result.header.elements = Len(result.lines)

(* a div with a tabindex next to a button *)
C21_Witness ==
  /\ Returned /\ result.mode = "all"
  /\ result.header.elements = 2 /\ result.header.refs = 1
  /\ Cardinality(RolelessInteractive) = 1

(* C21 as stated: every line belongs to a node with a role and carries a
   ref, and the two header values are equal. *)
C21_EveryLineHasRef ==
  (Returned /\ result.mode = "all") =>
    /\ \A k \in 1..Len(result.lines) :
         /\ getRole(result.lines[k].element) # NoRole
         /\ result.lines[k].ref # NoRef
    /\ result.header.elements = result.header.refs

(* the record of a collected section satisfies the filter of the call *)
Satisfies(section) ==
  LET record == buildElementSearchData(section).text
      pat == result.opts.grep.pattern
      found == \E k \in 1..Len(record) : <<record[k]>> = pat
  IN found # result.opts.grep.invert

SectionsOf(lines) ==
  { lines[k].element : k \in { j \in 1..Len(lines) : lines[j].text = <<"SECTION">> } }

(* the outermost headings below a section, whatever sections lie in between *)
HeadingsIn(section) ==
  { n \in Nodes :
      /\ startsWithHeading(getRole(n))
      /\ section \in Ancestors(n)
      /\ ~\E a \in Ancestors(n) :
            startsWithHeading(getRole(a)) /\ section \in Ancestors(a) }

GreppedContent ==
  Returned /\ result.mode = "content" /\ result.opts.grep.pattern # <<>>

(* C22: in Content mode with a grep pattern the sections rendered are
   exactly the collected sections whose searchable record satisfies the
   filter, and each is rendered in full: its header line and every
   outermost heading below it, those of nested sections included whether
   or not the nested section satisfies the filter. *)
C22_SectionsFilteredWhole ==
  GreppedContent =>
    /\ SectionsOf(result.lines)
         = { result.elements[i] : i \in { j \in 1..Len(result.elements) :
                                            Satisfies(result.elements[j]) } }
    /\ result.header.elements = Cardinality(SectionsOf(result.lines))
    /\ \A s \in SectionsOf(result.lines) :
         \A n \in HeadingsIn(s) :
           \E k \in 1..Len(result.lines) :
             result.lines[k].text = <<"HEADING">> /\ result.lines[k].element = n

(* an article that fails the filter, nested in a navigation that satisfies
   it: the heading of the article is rendered *)
C22_Witness ==
  /\ GreppedContent
  /\ \E i, j \in 1..Len(result.elements) :
       LET outer == result.elements[i]
           inner == result.elements[j]
       IN /\ outer \in Ancestors(inner)
          /\ Satisfies(outer) /\ ~Satisfies(inner)
          /\ \E k \in 1..Len(result.lines) :
               /\ result.lines[k].text = <<"HEADING">>
               /\ inner \in Ancestors(result.lines[k].element)

(* C22 as stated: besides, no line of the output stems from a collected
   section whose record fails the filter. *)
C22_NoLineOfFailingSection ==
  GreppedContent =>
    /\ SectionsOf(result.lines)
         = { result.elements[i] : i \in { j \in 1..Len(result.elements) :
                                            Satisfies(result.elements[j]) } }
    /\ \A k \in 1..Len(result.lines) :
         \A i \in 1..Len(result.elements) :
           LET section == result.elements[i]
               n == result.lines[k].element
           IN (n # Absent /\ (n = section \/ section \in Ancestors(n)))
                => Satisfies(section)

(* the cells of an emitted table line: what lies between its delimiters *)
CellsOf(line) == [k \in 1..((Len(line) - 1) \div 2) |-> line[2 * k]]

TableHasCell == \E i \in 1..Len(result.elements) : Len(result.elements[i]) > 0

WidestRow ==
  CHOOSE w \in 0..MaxCols + 1 :
    /\ \A i \in 1..Len(result.elements) : Len(result.elements[i]) <= w
    /\ \E i \in 1..Len(result.elements) : Len(result.elements[i]) = w

(* C23: for a table with at least one cell the Markdown extractor emits a
   header row, a separator row and one row per further table row, each with
   as many cells as the widest row of the table; a row starts with its own
   cells in order and is filled up with empty cells. *)
C23_TableRowsPadded ==
  (result.mode = "table" /\ TableHasCell) =>
    LET rows == result.elements
        out == result.lines
    IN /\ Len(out) = Len(rows) + 2
       /\ out[Len(out)] = <<>>
       /\ \A k \in 1..(Len(out) - 1) :
            /\ out[k][1] = "| " /\ out[k][Len(out[k])] = " |"
            /\ Len(CellsOf(out[k])) = WidestRow
            /\ \A j \in 1..(WidestRow - 1) : out[k][2 * j + 1] = " | "
       /\ \A j \in 1..WidestRow : CellsOf(out[2])[j] = "---"
       /\ \A i \in 1..Len(rows) :
            LET cells == CellsOf(out[IF i = 1 THEN 1 ELSE i + 1])
            IN /\ \A j \in 1..Len(rows[i]) : cells[j] = rows[i][j]
               /\ \A j \in (Len(rows[i]) + 1)..WidestRow : cells[j] = ""

(* a first row of one cell, a second of two, a third of none *)
C23_Witness ==
  /\ result.mode = "table"
  /\ result.elements = << <<"x">>, <<"x", "x">>, <<>> >>
  /\ result.lines = << <<"| ", "x", " | ", "", " |">>,
                       <<"| ", "---", " | ", "---", " |">>,
                       <<"| ", "x", " | ", "x", " |">>,
                       <<"| ", "", " | ", "", " |">>,
                       <<>> >>

MarkerOfCall == IF result.opts.format = "html" THEN HtmlMarker ELSE MarkdownMarker

EndsWith(str, suffix) ==
  /\ Len(str) >= Len(suffix)
  /\ SubSeq(str, Len(str) - Len(suffix) + 1, Len(str)) = suffix

(* C24: for extract() with a positive maxLength, in HTML and in Markdown
   format, an output of at most maxLength characters is returned as it is;
   a longer one is cut to its first maxLength characters and the truncation
   marker is appended, so the returned string is maxLength characters plus
   the marker long and ends with the marker. *)
C24_ContentWithinMaxLength ==
  (result.mode = "extractString" /\ result.opts.maxLength > 0) =>
    /\ (Len(result.rendered) <= result.opts.maxLength) => result.lines = result.rendered
    /\ (Len(result.rendered) > result.opts.maxLength) =>
         /\ EndsWith(result.lines, MarkerOfCall)
         /\ Len(result.lines) = result.opts.maxLength + Len(MarkerOfCall)
         /\ SubSeq(result.lines, 1, result.opts.maxLength)
              = SubSeq(result.rendered, 1, result.opts.maxLength)

(* a Markdown output with paragraph text, cut one character short *)
C24_Witness ==
  /\ result.mode = "extractString" /\ result.opts.format = "markdown"
  /\ result.opts.maxLength = Len(result.rendered) - 1
  /\ Len(result.rendered) > Len(markdownOutput(<<>>))
  /\ Len(result.lines) = result.opts.maxLength + Len(MarkdownMarker)
  /\ EndsWith(result.lines, MarkdownMarker)

(* C24 as stated: the returned string, marker included, is at most
   maxLength characters long, and when content was cut off it ends with the
   truncation marker. *)
C24_OutputWithinMaxLength ==
  (result.mode = "extractString" /\ result.opts.maxLength > 0) =>
    /\ Len(result.lines) <= result.opts.maxLength
    /\ (result.lines # result.rendered) => EndsWith(result.lines, MarkerOfCall)

(* line i of the input satisfies the match predicate of the call *)
Matching(i) == (result.elements[i] = <<"x">>) # result.opts.invert

(* C25: for grep() with lineNumbers and before/after context every emitted
   line that satisfies the match predicate is written n:line and every
   other emitted line n-line, no input line is emitted twice and the lines
   appear in ascending line-number order. *)
C25_ContextSeparators ==
  (result.mode = "grep" /\ result.opts.lineNumbers /\ ~result.opts.count) =>
    /\ \A k \in 1..Len(result.lines) :
         /\ result.lines[k].line = result.elements[result.lines[k].num]
         /\ result.lines[k].sep = IF Matching(result.lines[k].num) THEN ":" ELSE "-"
    /\ \A j, k \in 1..Len(result.lines) : j < k => result.lines[j].num < result.lines[k].num

(* the histogram of a set of interactive elements *)
Histogram(S) ==
  LET buttons == Cardinality({ n \in S : tagName(n) = "button" })
      links == Cardinality({ n \in S : tagName(n) = "a" })
  IN [buttons |-> buttons, links |-> links, inputs |-> 0,
      other |-> Cardinality(S) - buttons - links]

SummaryOf(S) == IF S = {} THEN NoSummary ELSE Histogram(S)

(* interactive elements at or below a node that are themselves visible *)
VisibleInteractiveIn(element) ==
  { n \in Nodes : InSubtree(element, n) /\ ~doc[n].el.hidden /\ isInteractive(n) }

(* those of them with no invisible element between the node and them *)
UnhiddenInteractiveIn(element) ==
  { n \in VisibleInteractiveIn(element) :
      \A a \in PathFrom(element, n) : ~doc[a].el.hidden }

LandmarkLines ==
  { k \in 1..Len(result.lines) : getRole(result.lines[k].element) \in LANDMARK_ROLES }

(* C26: countInteractiveDescendants counts exactly the interactive elements
   of the subtree that are themselves visible; it does descend below an
   invisible element, so a visible interactive element is counted also when
   an ancestor inside the subtree is invisible. *)
C26_CountsOwnVisibility ==
  (Returned /\ result.mode = "structure") =>
    \A k \in LandmarkLines :
      result.lines[k].summary = SummaryOf(VisibleInteractiveIn(result.lines[k].element))

(* a button below an invisible navigation landmark is counted *)
C26_Witness ==
  /\ Returned /\ result.mode = "structure"
  /\ \E k \in LandmarkLines :
       /\ doc[result.lines[k].element].el.hidden
       /\ result.lines[k].summary # NoSummary
       /\ result.lines[k].summary.buttons = 1

(* C26 as stated: an interactive element with an invisible ancestor inside
   the counted subtree is not counted. *)
C26_NothingBelowInvisible ==
  (Returned /\ result.mode = "structure") =>
    \A k \in LandmarkLines :
      result.lines[k].summary = SummaryOf(UnhiddenInteractiveIn(result.lines[k].element))

(* C27: in Content mode with includeHidden = false no emitted content line
   stems from an element that is invisible or has an invisible ancestor
   inside its section. *)
C27_HiddenNotRendered ==
  (Returned /\ result.mode = "content" /\ ~result.opts.includeHidden) =>
    \A k \in 1..Len(result.lines) :
      LET n == result.lines[k].element
      IN (n # Absent /\ result.lines[k].text # <<"SECTION">>) =>
           \A a \in PathFrom(EffectiveRoot, n) : ~doc[a].el.hidden

TextNodes == { n \in Nodes : isTextNode(n) }

Occurrences(n) ==
  Cardinality({ k \in 1..Len(result.lines) :
                  result.lines[k].kind = "text" /\ result.lines[k].node = n })

(* C28: in Markdown inline formatting with links included the text of every
   text node below the formatted element appears exactly once in the
   result, also when it is nested inside a converted a, code, strong or em
   element at any depth. *)
C28_TextExactlyOnce ==
  (result.mode = "inline" /\ result.opts.includeLinks = "true") =>
    \A n \in TextNodes : Occurrences(n) = 1

DisconnectReturned ==
  \E k \in 1..Len(transport.history) : transport.history[k] = "disconnect"

(* C29: once disconnect() has returned, the state leaves 'disconnected'
   only in a step in which connect() or send() is called. *)
C29_StaysDisconnected ==
  [][(DisconnectReturned /\ transport.state = "disconnected"
        /\ transport'.state # "disconnected")
       => /\ Len(transport'.history) = Len(transport.history) + 1
          /\ transport'.history[Len(transport'.history)] \in {"connect", "send"}]_vars

(* only send() has been called, on a transport with autoConnect *)
OnlySends ==
  /\ transport.autoConnect
  /\ \A k \in 1..Len(transport.history) : transport.history[k] = "send"

(* C30: with autoConnect, whatever the interleaving of concurrent send()
   calls on a disconnected transport, at most one popupInitialize is sent
   and every command handed to the background script comes after the reply
   to it. *)
C30_OneHandshakeBeforeCommands ==
  OnlySends =>
    /\ Cardinality({ k \in 1..Len(transport.wire) :
                       transport.wire[k].kind = "popupInitialize" }) <= 1
    /\ \A k \in 1..Len(transport.wire) :
         transport.wire[k].kind = "command" =>
           \E j \in 1..(k - 1) : transport.wire[j].kind = "reply"

====
